---- MODULE Spec2Model ----
(***************************************************************************)
(* Co-browsing chat assistant: the action executor and target resolution   *)
(* of src/lib/tool-runner.ts, the conversation loop of                     *)
(* src/components/chat-panel.tsx (runConversation) and the planning route  *)
(* (POST /api/chat) that answers it.                                       *)
(*                                                                         *)
(* Strings are TLA+ strings; TLC evaluates Len, SubSeq and \o on them, so  *)
(* substring search, lower-casing and trimming are computed character by   *)
(* character as the JavaScript does.                                       *)
(***************************************************************************)
EXTENDS Integers, Sequences, FiniteSets, TLC

(***************************************************************************)
(* String primitives                                                       *)
(***************************************************************************)
CharAt(s, i) == SubSeq(s, i, i)

UpperChars == "ABCDEFGHIJKLMNOPQRSTUVWXYZ"

LowerChars == "abcdefghijklmnopqrstuvwxyz"

DigitChars == "0123456789"

IsSpace(c) == c \in {" ", "\n", "\t"}

IsDigit(c) == \E k \in 1..10 : CharAt(DigitChars, k) = c

DigitVal(c) == (CHOOSE k \in 1..10 : CharAt(DigitChars, k) = c) - 1

IsWordChar(c) == IsDigit(c) \/ c = "_" \/ (\E k \in 1..26 : CharAt(LowerChars, k) = c \/ CharAt(UpperChars, k) = c)

LowerChar(c) == IF \E k \in 1..26 : CharAt(UpperChars, k) = c THEN CharAt(LowerChars, CHOOSE k \in 1..26 : CharAt(UpperChars, k) = c) ELSE c

\* Strings are built by halving, so that the depth of evaluation stays
\* logarithmic in their length.
RECURSIVE LowerRange(_, _, _)
LowerRange(s, lo, hi) ==
  IF lo > hi THEN ""
  ELSE IF lo = hi THEN LowerChar(CharAt(s, lo))
  ELSE LET mid == (lo + hi) \div 2 IN LowerRange(s, lo, mid) \o LowerRange(s, mid + 1, hi)

ToLowerCase(s) == LowerRange(s, 1, Len(s))

\* value.replace(/\s+/g, " "): every run of white space becomes one space
RECURSIVE CollapseRange(_, _, _)
CollapseRange(s, lo, hi) ==
  IF lo > hi THEN ""
  ELSE IF lo = hi
       THEN (IF ~IsSpace(CharAt(s, lo)) THEN CharAt(s, lo) ELSE IF lo > 1 /\ IsSpace(CharAt(s, lo - 1)) THEN "" ELSE " ")
  ELSE LET mid == (lo + hi) \div 2 IN CollapseRange(s, lo, mid) \o CollapseRange(s, mid + 1, hi)

CollapseSpaces(s) == CollapseRange(s, 1, Len(s))

Trim(s) ==
  LET solid == {i \in 1..Len(s) : ~IsSpace(CharAt(s, i))}
  IN  IF solid = {} THEN ""
      ELSE SubSeq(s, CHOOSE i \in solid : \A j \in solid : i <= j, CHOOSE i \in solid : \A j \in solid : i >= j)

\* String.prototype.indexOf, 0-based; -1 when absent
IndexOf(s, t) ==
  LET hits == {i \in 1..(Len(s) - Len(t) + 1) : SubSeq(s, i, i + Len(t) - 1) = t}
  IN  IF hits = {} THEN -1 ELSE (CHOOSE i \in hits : \A j \in hits : i <= j) - 1

Includes(s, t) == IndexOf(s, t) # -1

StartsWith(s, t) == Len(s) >= Len(t) /\ SubSeq(s, 1, Len(t)) = t

Slice(s, n) == SubSeq(s, 1, IF Len(s) < n THEN Len(s) ELSE n)

RECURSIVE DigitsToNat(_)
DigitsToNat(s) == IF s = "" THEN 0 ELSE DigitsToNat(SubSeq(s, 1, Len(s) - 1)) * 10 + DigitVal(CharAt(s, Len(s)))

RECURSIVE NatToStr(_)
NatToStr(n) == IF n < 10 THEN CharAt(DigitChars, n + 1) ELSE NatToStr(n \div 10) \o CharAt(DigitChars, (n % 10) + 1)

AllDigits(s) == s # "" /\ \A i \in 1..Len(s) : IsDigit(CharAt(s, i))

\* tool-runner.ts normalize
normalize(value) == Trim(CollapseSpaces(ToLowerCase(value)))

(***************************************************************************)
(* The document tree: the page of src/components/portfolio-content.tsx     *)
(* followed by the chat panel of src/components/chat-panel.tsx, in         *)
(* document order.  An element is named by its position in Doc; 0 is null. *)
(* Wrapper <div>s, <label>s, <p>s and <li>s carry no identifier and are    *)
(* left out, and so are the nav links to #about and #skills, the panel's   *)
(* close button and flow board, and all quick prompts but the last; an     *)
(* attribute that is absent is the empty string.                           *)
(***************************************************************************)
NoElement == 0

El(tag, id, parent, own) == [tag |-> tag, id |-> id, parent |-> parent, own |-> own, chat |-> FALSE, name |-> "", placeholder |-> "", aria |-> "", card |-> FALSE, order |-> "", title |-> "", href |-> "", busyDisabled |-> FALSE, disabled |-> FALSE]

Link(parent, href, own) == [El("a", "", parent, own) EXCEPT !.href = href]

Card(id, order, title) == [El("article", id, 12, "") EXCEPT !.card = TRUE, !.order = order, !.title = title]

CardLink(id, parent, own, aria) == [El("a", id, parent, own) EXCEPT !.href = "https://github.com/", !.aria = aria]

Field(tag, id, parent, name, placeholder) == [El(tag, id, parent, "") EXCEPT !.name = name, !.placeholder = placeholder]

Doc ==
  << El("main", "", 0, ""),
     El("h1", "", 1, "Nia Verma"),
     Link(1, "#hero", "Home"),
     Link(1, "#projects", "Projects"),
     Link(1, "#contact", "Contact"),
     El("section", "hero", 1, ""),
     El("h2", "", 6, "Designing high-signal web products with AI-first workflows."),
     Link(6, "#projects", "Explore Projects"),
     Link(6, "#contact", "Contact Me"),
     El("section", "about", 1, ""),
     El("h2", "", 10, "About"),
     El("section", "projects", 1, ""),
     El("h2", "", 12, "Projects"),
     Card("project-1", "1", "PulseCart Analytics"),
     El("h3", "", 14, "PulseCart Analytics"),
     CardLink("project-1-github", 14, "GitHub", "Open GitHub for PulseCart Analytics"),
     [CardLink("project-1-demo", 14, "Live Demo", "Open live demo for PulseCart Analytics") EXCEPT !.href = "https://vercel.com/"],
     Card("project-2", "2", "Atlas Talent Finder"),
     El("h3", "", 18, "Atlas Talent Finder"),
     CardLink("project-2-github", 18, "GitHub", "Open GitHub for Atlas Talent Finder"),
     [CardLink("project-2-demo", 18, "Live Demo", "Open live demo for Atlas Talent Finder") EXCEPT !.href = "https://vercel.com/"],
     Card("project-3", "3", "Dockline Planner"),
     El("h3", "", 22, "Dockline Planner"),
     CardLink("project-3-github", 22, "GitHub", "Open GitHub for Dockline Planner"),
     [CardLink("project-3-demo", 22, "Live Demo", "Open live demo for Dockline Planner") EXCEPT !.href = "https://vercel.com/"],
     El("section", "skills", 1, ""),
     El("h2", "", 26, "Skills"),
     El("section", "contact", 1, ""),
     El("h2", "", 28, "Contact"),
     El("form", "contact-form", 28, ""),
     Field("input", "contact-name", 30, "name", "Your name"),
     Field("input", "contact-email", 30, "email", "you@example.com"),
     Field("input", "contact-subject", 30, "subject", "Project idea"),
     Field("textarea", "contact-message", 30, "message", "Tell me what you are building"),
     [El("button", "", 30, "Send Message") EXCEPT !.aria = "Send contact message"],
     [El("div", "", 0, "") EXCEPT !.chat = TRUE],
     [El("button", "", 36, "AssistantChat + Co-Browse") EXCEPT !.aria = "Open assistant chat"],
     El("h2", "", 36, "Portfolio Command Center"),
     [El("button", "", 36, "Take me to contact section.") EXCEPT !.busyDisabled = TRUE],
     [Field("textarea", "chat-input", 36, "chat-input", "Example: Open projects, highlight the latest one, then take me to contact.") EXCEPT !.busyDisabled = TRUE],
     [El("button", "", 36, "Send") EXCEPT !.busyDisabled = TRUE] >>

\* The rendered tree is part of the page's state.  No operation of the model
\* inserts, removes or rewrites an element, so it stays as rendered.
VARIABLE document

\* The panel's busy flag, which the tree renders as disabled={isBusy}
VARIABLE isBusy

Elements == DOMAIN document

\* e is anc or lies below it
RECURSIVE IsWithin(_, _)
IsWithin(e, anc) == e # NoElement /\ (e = anc \/ IsWithin(document[e].parent, anc))

Descendants == [a \in Elements |-> {e \in Elements : e # a /\ IsWithin(e, a)}]

\* the first element of a set in document order; null for the empty set
First(S) == IF S = {} THEN NoElement ELSE CHOOSE e \in S : \A o \in S : e <= o

RECURSIVE ConcatOwn(_, _, _)
ConcatOwn(a, lo, hi) ==
  IF lo > hi THEN ""
  ELSE IF lo = hi THEN (IF IsWithin(lo, a) THEN document[lo].own ELSE "")
  ELSE LET mid == (lo + hi) \div 2 IN ConcatOwn(a, lo, mid) \o ConcatOwn(a, mid + 1, hi)

\* Node.textContent: the text of the element and of everything below it
TextContent == [a \in Elements |-> ConcatOwn(a, a, Len(document))]

\* element.closest("[data-chat-ui='true']") is not null
InsideChat == [e \in Elements |-> \E a \in Elements : document[a].chat /\ IsWithin(e, a)]

isInsideChatUi(element) == InsideChat[element]

(***************************************************************************)
(* Document queries                                                        *)
(***************************************************************************)
getElementById(id) == First({e \in Elements : document[e].id # "" /\ document[e].id = id})

IsIdentChar(c) == IsWordChar(c) \/ c = "-"

\* The selector grammar of the model: compounds joined by the child
\* combinator " > ", a compound being "#identifier", a tag name,
\* tag:nth-of-type(k), tag[name="value"] or tag[href="value"].  Any other
\* string stands for a selector the engine rejects (SyntaxError).
SelectorIsId(selector) == Len(selector) >= 2 /\ CharAt(selector, 1) = "#" /\ \A i \in 2..Len(selector) : IsIdentChar(CharAt(selector, i))

SelectorIsTag(selector) == selector # "" /\ \A i \in 1..Len(selector) : IsWordChar(CharAt(selector, i)) /\ ~IsDigit(CharAt(selector, 1))

\* the compounds of a selector, outermost first
RECURSIVE SplitPath(_)
SplitPath(selector) ==
  LET at == IndexOf(selector, " > ")
  IN  IF at = -1 THEN <<selector>> ELSE <<SubSeq(selector, 1, at)>> \o SplitPath(SubSeq(selector, at + 4, Len(selector)))

\* a quoted attribute value with its escapes taken off
RECURSIVE Unescape(_)
Unescape(raw) ==
  IF raw = "" THEN ""
  ELSE IF CharAt(raw, 1) = "\\" /\ Len(raw) >= 2 THEN CharAt(raw, 2) \o Unescape(SubSeq(raw, 3, Len(raw)))
  ELSE CharAt(raw, 1) \o Unescape(SubSeq(raw, 2, Len(raw)))

\* the characters lo..hi of s that there are
Part(s, lo, hi) == IF lo > hi \/ lo > Len(s) THEN "" ELSE SubSeq(s, IF lo < 1 THEN 1 ELSE lo, IF hi > Len(s) THEN Len(s) ELSE hi)

\* [valid, kind, tag, n, attr, value]: one compound, parsed
Compound(c) ==
  LET none == [valid |-> FALSE, kind |-> "", tag |-> "", n |-> 0, attr |-> "", value |-> ""]
      nth == IndexOf(c, ":nth-of-type(")
      open == IndexOf(c, "[")
      digits == Part(c, nth + 14, Len(c) - 1)
      head == Part(c, open + 1, open + 7)
      raw == Part(c, open + 8, Len(c) - 2)
  IN  IF SelectorIsId(c) THEN [none EXCEPT !.valid = TRUE, !.kind = "id", !.value = SubSeq(c, 2, Len(c))]
      ELSE IF SelectorIsTag(c) THEN [none EXCEPT !.valid = TRUE, !.kind = "tag", !.tag = ToLowerCase(c)]
      ELSE IF nth >= 1 /\ SelectorIsTag(SubSeq(c, 1, nth)) /\ CharAt(c, Len(c)) = ")" /\ AllDigits(digits)
           THEN [none EXCEPT !.valid = TRUE, !.kind = "nth", !.tag = ToLowerCase(SubSeq(c, 1, nth)), !.n = DigitsToNat(digits)]
      ELSE IF /\ open >= 1
              /\ SelectorIsTag(SubSeq(c, 1, open))
              /\ head \in {"[name=\"", "[href=\""}
              /\ Len(c) >= open + 9
              /\ Part(c, Len(c) - 1, Len(c)) = "\"]"
              /\ \A i \in 1..Len(raw) : CharAt(raw, i) = "\"" => (i > 1 /\ CharAt(raw, i - 1) = "\\")
           THEN [none EXCEPT !.valid = TRUE, !.kind = "attr", !.tag = ToLowerCase(SubSeq(c, 1, open)), !.attr = SubSeq(head, 2, 5), !.value = Unescape(raw)]
      ELSE none

\* the compounds of a selector, parsed
ParsePath(selector) == [i \in 1..Len(SplitPath(selector)) |-> Compound(SplitPath(selector)[i])]

SelectorIsValid(selector) == SelectorIsId(selector) \/ SelectorIsTag(selector) \/ \A path \in {ParsePath(selector)} : \A i \in 1..Len(path) : path[i].valid

\* the place of an element among its parent's children of the same tag
NthOfType(e) == Cardinality({s \in Elements : s <= e /\ document[s].parent = document[e].parent /\ document[s].tag = document[e].tag})

MatchesCompound(e, c) ==
  IF c.kind = "id" THEN document[e].id = c.value
  ELSE /\ document[e].tag = c.tag
       /\ c.kind = "nth" => NthOfType(e) = c.n
       /\ c.kind = "attr" => (IF c.attr = "name" THEN document[e].name ELSE document[e].href) = c.value

\* e matches the last compound and its parent the ones before it; the body
\* (the parent of the top-level elements) matches no compound of the grammar
\* but its own tag, which no selector here names
RECURSIVE MatchesPath(_, _, _)
MatchesPath(e, path, last) ==
  /\ MatchesCompound(e, path[last])
  /\ last > 1 => (document[e].parent # NoElement /\ MatchesPath(document[e].parent, path, last - 1))

\* document.querySelectorAll for a selector of the grammar
querySelectorAll(selector) ==
  IF SelectorIsId(selector) THEN {e \in Elements : document[e].id = SubSeq(selector, 2, Len(selector))}
  ELSE IF SelectorIsTag(selector) THEN {e \in Elements : document[e].tag = ToLowerCase(selector)}
  ELSE UNION {{e \in Elements : MatchesPath(e, path, Len(path))} : path \in {ParsePath(selector)}}

\* document.querySelector for a selector of the grammar
querySelector(selector) == First(querySelectorAll(selector))

\* a query without the try/catch: an invalid selector raises
safeQueryUncaught(selector) == IF SelectorIsValid(selector) THEN [threw |-> FALSE, el |-> querySelector(selector)] ELSE [threw |-> TRUE, el |-> NoElement]

\* try { return document.querySelector(selector) } catch { return null }
\* The value is [threw, el]: threw marks an exception leaving the function.
safeQuery(selector) == IF SelectorIsValid(selector) THEN [threw |-> FALSE, el |-> querySelector(selector)] ELSE [threw |-> FALSE, el |-> NoElement]

IsHeading(e) == document[e].tag \in {"h1", "h2", "h3"}

\* section.querySelector("h1, h2, h3")?.textContent ?? ""
HeadingOf == [a \in Elements |-> LET h == First({e \in Descendants[a] : IsHeading(e)}) IN IF h = NoElement THEN "" ELSE TextContent[h]]

IsSectionWithId(e) == document[e].tag = "section" /\ document[e].id # ""

Cards == {e \in Elements : document[e].card}

IsField(e) == document[e].tag \in {"input", "textarea"}

(***************************************************************************)
(* Target resolution (tool-runner.ts)                                      *)
(***************************************************************************)
SECTION_ALIASES ==
  << <<"hero", <<"hero", "home", "top", "intro", "landing">> >>,
     <<"about", <<"about", "bio", "background", "profile">> >>,
     <<"projects", <<"projects", "portfolio", "work", "case studies", "case-study">> >>,
     <<"skills", <<"skills", "tech", "stack", "expertise">> >>,
     <<"contact", <<"contact", "hire", "email", "reach", "message">> >> >>

ORDINAL_TO_INDEX == << <<"first", 1>>, <<"second", 2>>, <<"third", 3>>, <<"fourth", 4>>, <<"fifth", 5>> >>

NoNumber == -1

\* normalizedHint.match(/\b(\d+)\b/): the leftmost run of digits with no
\* word character on either side
StandaloneDigitRuns(s) ==
  {r \in (1..Len(s)) \X (1..Len(s)) :
     /\ r[1] <= r[2]
     /\ \A i \in r[1]..r[2] : IsDigit(CharAt(s, i))
     /\ (r[1] = 1 \/ ~IsWordChar(CharAt(s, r[1] - 1)))
     /\ (r[2] = Len(s) \/ ~IsWordChar(CharAt(s, r[2] + 1)))}

parseOrdinal(hint) ==
  LET normalizedHint == normalize(hint)
      words == {k \in 1..Len(ORDINAL_TO_INDEX) : Includes(normalizedHint, ORDINAL_TO_INDEX[k][1])}
      runs == StandaloneDigitRuns(normalizedHint)
  IN  IF words # {} THEN ORDINAL_TO_INDEX[CHOOSE k \in words : \A j \in words : k <= j][2]
      ELSE IF runs # {}
           THEN LET r == CHOOSE q \in runs : \A o \in runs : q[1] <= o[1]
                IN  DigitsToNat(SubSeq(normalizedHint, r[1], r[2]))
           ELSE NoNumber

\* normalize(hint).replace(/^#/, "")
SectionHintKey(hint) == LET n == normalize(hint) IN IF StartsWith(n, "#") THEN SubSeq(n, 2, Len(n)) ELSE n

AliasHit(normalizedHint) ==
  {k \in 1..Len(SECTION_ALIASES) :
     /\ \E a \in 1..Len(SECTION_ALIASES[k][2]) : Includes(normalizedHint, SECTION_ALIASES[k][2][a])
     /\ getElementById(SECTION_ALIASES[k][1]) # NoElement}

SectionText == [e \in Elements |-> normalize(document[e].id \o " " \o HeadingOf[e])]

resolveSectionFromHint(hint) ==
  LET normalizedHint == SectionHintKey(hint)
      directById == getElementById(normalizedHint)
      hits == AliasHit(normalizedHint)
      sectionCandidates == {e \in Elements : IsSectionWithId(e) /\ Includes(SectionText[e], normalizedHint)}
  IN  IF normalizedHint = "" THEN NoElement
      ELSE IF directById # NoElement THEN directById
      ELSE IF hits # {} THEN getElementById(SECTION_ALIASES[CHOOSE k \in hits : \A j \in hits : k <= j][1])
      ELSE First(sectionCandidates)

\* Number(card.dataset.projectOrder); NoNumber where it is no count
OrderOf == [e \in Elements |-> IF AllDigits(document[e].order) THEN DigitsToNat(document[e].order) ELSE NoNumber]

\* the k-th element of a set in document order
Nth(S, k) == IF k < 1 \/ k > Cardinality(S) THEN NoElement ELSE CHOOSE e \in S : Cardinality({o \in S : o <= e}) = k

CardTitle == [e \in Elements |-> normalize(IF document[e].title # "" THEN document[e].title ELSE TextContent[e])]

findProjectCardByHint(hint) ==
  LET cards == Cards
      normalizedHint == normalize(hint)
      ordinal == parseOrdinal(normalizedHint)
      latest == First({c \in cards : document[c].order = "1"})
      byOrder == First({c \in cards : OrderOf[c] = ordinal})
      byTitle == First({c \in cards : Includes(CardTitle[c], normalizedHint)})
  IN  IF cards = {} THEN NoElement
      ELSE IF Includes(normalizedHint, "most recent") \/ Includes(normalizedHint, "latest") \/ Includes(normalizedHint, "newest")
           THEN (IF latest # NoElement THEN latest ELSE First(cards))
      ELSE IF ordinal # NoNumber /\ ordinal >= 1 /\ ordinal <= Cardinality(cards)
           THEN (IF byOrder # NoElement THEN byOrder ELSE Nth(cards, ordinal))
      ELSE byTitle

\* the candidate set of findByText's query
IsTextCandidate(e) == IsSectionWithId(e) \/ document[e].card \/ document[e].tag \in {"a", "button", "input", "textarea", "select", "h1", "h2", "h3", "p", "li"}

Composite == [e \in Elements |-> normalize(TextContent[e] \o " " \o document[e].aria \o " " \o document[e].placeholder \o " " \o document[e].title)]

TextScore(e, target) == IndexOf(Composite[e], target) + Len(Composite[e])

\* a variant that ranks the whole tree
findByText_unfiltered(text) ==
  LET target == normalize(text)
      ranked == {e \in Elements : IsTextCandidate(e) /\ Includes(Composite[e], target)}
      best == {e \in ranked : \A o \in ranked : TextScore(e, target) <= TextScore(o, target)}
  IN  IF target = "" THEN NoElement ELSE First(best)

findByText(text) ==
  LET target == normalize(text)
      ranked == {e \in Elements : IsTextCandidate(e) /\ ~isInsideChatUi(e) /\ Includes(Composite[e], target)}
      best == {e \in ranked : \A o \in ranked : TextScore(e, target) <= TextScore(o, target)}
  IN  IF target = "" THEN NoElement ELSE First(best)

FieldAttrs(e) == {normalize(a) : a \in {document[e].name, document[e].id, document[e].placeholder, document[e].aria} \ {""}}

findInputByFieldName(fieldName) ==
  LET normalizedField == normalize(fieldName)
  IN  First({e \in Elements : IsField(e) /\ ~isInsideChatUi(e) /\ \E attr \in FieldAttrs(e) : Includes(attr, normalizedField)})

(***************************************************************************)
(* Untyped JSON values of an argument bag.  A value is [t, s, o]: its      *)
(* typeof tag, its text (a string's characters, a number's literal) and,   *)
(* for an object, its entries <<key, value>> in insertion order.           *)
(***************************************************************************)
Undefined == [t |-> "undefined", s |-> "", o |-> <<>>]

Str(v) == [t |-> "string", s |-> v, o |-> <<>>]

Num(literal) == [t |-> "number", s |-> literal, o |-> <<>>]

Obj(entries) == [t |-> "object", s |-> "", o |-> entries]

Arr == [t |-> "array", s |-> "", o |-> <<>>]

Null == [t |-> "null", s |-> "", o |-> <<>>]

\* typeof value === "object" && value !== null && !Array.isArray(value)
isObject(value) == value.t = "object"

\* args[key]
Get(args, key) ==
  LET at == {i \in 1..Len(args.o) : args.o[i][1] = key}
  IN  IF at = {} THEN Undefined ELSE args.o[CHOOSE i \in at : \A j \in at : i >= j][2]

\* the first key whose value is a string that is not blank, trimmed; "" for null
RECURSIVE readString(_, _)
readString(args, keys) ==
  IF keys = <<>> THEN ""
  ELSE LET value == Get(args, Head(keys))
       IN  IF value.t = "string" /\ Trim(value.s) # "" THEN Trim(value.s) ELSE readString(args, Tail(keys))

\* Number(text) for the literals of the model: an optional sign and decimal
\* digits, white space around them ignored; anything else is NaN
IsIntLiteral(text) ==
  LET t == Trim(text)
  IN  \/ AllDigits(t)
      \/ Len(t) >= 2 /\ CharAt(t, 1) \in {"-", "+"} /\ AllDigits(SubSeq(t, 2, Len(t)))

IntOfLiteral(text) ==
  LET t == Trim(text)
  IN  IF CharAt(t, 1) = "-" THEN 0 - DigitsToNat(SubSeq(t, 2, Len(t)))
      ELSE IF CharAt(t, 1) = "+" THEN DigitsToNat(SubSeq(t, 2, Len(t)))
      ELSE DigitsToNat(t)

\* [found, n]: the first key holding a finite number or a numeric string
RECURSIVE readNumber(_, _)
readNumber(args, keys) ==
  IF keys = <<>> THEN [found |-> FALSE, n |-> 0]
  ELSE LET value == Get(args, Head(keys))
       IN  IF value.t = "number" THEN [found |-> TRUE, n |-> IntOfLiteral(value.s)]
           ELSE IF value.t = "string" /\ Trim(value.s) # "" /\ IsIntLiteral(value.s) THEN [found |-> TRUE, n |-> IntOfLiteral(value.s)]
           ELSE readNumber(args, Tail(keys))

\* a variant that tries the selector before the section hint
findElement_selector_first(args) ==
  LET ByText(textHint, projectCard, textSection) ==
        IF textHint = "" THEN [threw |-> FALSE, el |-> NoElement]
        ELSE IF projectCard # NoElement THEN [threw |-> FALSE, el |-> projectCard]
        ELSE IF textSection # NoElement THEN [threw |-> FALSE, el |-> textSection]
        ELSE [threw |-> FALSE, el |-> findByText(textHint)]
      Hinted(textHint) == ByText(textHint, findProjectCardByHint(textHint), resolveSectionFromHint(textHint))
      BySection(section) == IF section # NoElement THEN [threw |-> FALSE, el |-> section] ELSE Hinted(readString(args, <<"text", "label", "target", "projectName">>))
      Sectioned(sectionHint) == BySection(IF sectionHint # "" THEN resolveSectionFromHint(sectionHint) ELSE NoElement)
      BySelector(bySelector) ==
        IF bySelector.threw THEN bySelector
        ELSE IF bySelector.el # NoElement /\ ~isInsideChatUi(bySelector.el) THEN bySelector
        ELSE Sectioned(readString(args, <<"sectionId", "section", "targetSection">>))
      Selected(selector) == BySelector(IF selector # "" THEN safeQuery(selector) ELSE [threw |-> FALSE, el |-> NoElement])
  IN  Selected(readString(args, <<"selector">>))

\* [threw, el]
findElement(args) ==
  LET ByText(textHint, projectCard, textSection) ==
        IF textHint = "" THEN [threw |-> FALSE, el |-> NoElement]
        ELSE IF projectCard # NoElement THEN [threw |-> FALSE, el |-> projectCard]
        ELSE IF textSection # NoElement THEN [threw |-> FALSE, el |-> textSection]
        ELSE [threw |-> FALSE, el |-> findByText(textHint)]
      Hinted(textHint) == ByText(textHint, findProjectCardByHint(textHint), resolveSectionFromHint(textHint))
      BySelector(bySelector) ==
        IF bySelector.threw THEN bySelector
        ELSE IF bySelector.el # NoElement /\ ~isInsideChatUi(bySelector.el) THEN bySelector
        ELSE Hinted(readString(args, <<"text", "label", "target", "projectName">>))
      Selected(selector) == BySelector(IF selector # "" THEN safeQuery(selector) ELSE [threw |-> FALSE, el |-> NoElement])
      BySection(section) == IF section # NoElement THEN [threw |-> FALSE, el |-> section] ELSE Selected(readString(args, <<"selector">>))
      Sectioned(sectionHint) == BySection(IF sectionHint # "" THEN resolveSectionFromHint(sectionHint) ELSE NoElement)
  IN  Sectioned(readString(args, <<"sectionId", "section", "targetSection">>))

(***************************************************************************)
(* The page the executor acts on.  value, highlighted, timers, fragment    *)
(* and focus persist; clicked, scrolledInto, scrolledBy, notified and      *)
(* target record what the action under way has done.                       *)
(***************************************************************************)
FieldElements == {e \in Elements : IsField(e)}

InitialPage == [value |-> [e \in FieldElements |-> ""], highlighted |-> {}, timers |-> <<>>, fragment |-> "", focus |-> NoElement, clicked |-> <<>>, scrolledInto |-> <<>>, scrolledBy |-> <<>>, notified |-> <<>>, target |-> NoElement]

\* what an action starts from: nothing done yet
Fresh(w) == [w EXCEPT !.clicked = <<>>, !.scrolledInto = <<>>, !.scrolledBy = <<>>, !.notified = <<>>, !.target = NoElement]

\* a variant that sets no timer
addHighlight_without_timer(w, element) == [w EXCEPT !.highlighted = @ \cup {element}]

\* classList.add and a 2600 ms timer that removes the class
addHighlight(w, element) == [w EXCEPT !.highlighted = @ \cup {element}, !.timers = Append(@, element)]

scrollIntoView(w, element, block) == [w EXCEPT !.scrolledInto = Append(@, <<element, block>>)]

\* a variant that leaves the location as it is
replaceState_dropped(w, url) == w

\* history.replaceState(null, "", url)
replaceState(w, url) == [w EXCEPT !.fragment = url]

describeElement(element) ==
  LET text == Trim(CollapseSpaces(TextContent[element]))
  IN  "<" \o document[element].tag \o ">" \o (IF text # "" THEN " \"" \o Slice(text, 44) \o "\"" ELSE "")

\* element.disabled: the attribute, and for the chat panel's controls
\* disabled={isBusy}
IsDisabled(element) == document[element].disabled \/ (document[element].busyDisabled /\ isBusy)

\* the value setter, the input and change events, and focus(), which a
\* disabled control does not take
setFieldValue(w, element, value) ==
  IF IsField(element)
  THEN [w EXCEPT !.value[element] = value, !.notified = Append(@, element), !.focus = IF IsDisabled(element) THEN @ ELSE element]
  ELSE w

result(call, success, output) == [toolCallId |-> call.id, name |-> call.name, success |-> success, output |-> output]

Returned(r, w) == [threw |-> FALSE, result |-> r, w |-> w]

\* an exception leaves the function; the page keeps what was done before
Raised(call, w) == [threw |-> TRUE, result |-> result(call, FALSE, ""), w |-> w]

Abs(n) == IF n < 0 THEN 0 - n ELSE n

\* a variant that scrolls by the magnitude
runScrollBy_by_magnitude(call, args, w) ==
  LET delta == readNumber(args, <<"delta", "amount">>)
  IN  IF ~delta.found THEN Returned(result(call, FALSE, "Missing numeric delta argument."), w)
      ELSE Returned(result(call, TRUE, IF delta.n >= 0 THEN "Scrolled down by " \o NatToStr(delta.n) \o " pixels." ELSE "Scrolled up by " \o NatToStr(Abs(delta.n)) \o " pixels."),
                    [w EXCEPT !.scrolledBy = Append(@, Abs(delta.n))])

runScrollBy(call, args, w) ==
  LET delta == readNumber(args, <<"delta", "amount">>)
  IN  IF ~delta.found THEN Returned(result(call, FALSE, "Missing numeric delta argument."), w)
      ELSE Returned(result(call, TRUE, IF delta.n >= 0 THEN "Scrolled down by " \o NatToStr(delta.n) \o " pixels." ELSE "Scrolled up by " \o NatToStr(Abs(delta.n)) \o " pixels."),
                    [w EXCEPT !.scrolledBy = Append(@, delta.n)])

runNavigateToSection(call, args, w) ==
  LET Move(sectionHint, target) ==
        IF sectionHint = "" THEN Returned(result(call, FALSE, "Missing target section id."), w)
        ELSE IF target = NoElement THEN Returned(result(call, FALSE, "Section \"" \o sectionHint \o "\" was not found."), w)
        ELSE LET scrolled == scrollIntoView([w EXCEPT !.target = target], target, "start")
                 moved == IF document[target].id # "" THEN replaceState(scrolled, "#" \o document[target].id) ELSE scrolled
             IN  Returned(result(call, TRUE, "Moved to section \"" \o (IF document[target].id # "" THEN document[target].id ELSE sectionHint) \o "\"."),
                          addHighlight(moved, target))
      Resolve(sectionHint) == Move(sectionHint, resolveSectionFromHint(sectionHint))
  IN  Resolve(readString(args, <<"sectionId", "section", "target">>))

chooseLinkFromProjectCard(card, hint) ==
  LET links == {e \in Descendants[card] : document[e].tag = "a"}
      normalizedHint == normalize(hint)
      github == First({l \in links : Includes(normalize(TextContent[l]), "github")})
      live == First({l \in links : Includes(normalize(TextContent[l]), "live")})
  IN  IF links = {} THEN NoElement
      ELSE IF Includes(normalizedHint, "github") THEN (IF github # NoElement THEN github ELSE First(links))
      ELSE IF Includes(normalizedHint, "live") \/ Includes(normalizedHint, "demo") \/ Includes(normalizedHint, "preview")
           THEN (IF live # NoElement THEN live ELSE First(links))
      ELSE First(links)

\* element.click(): nothing on a form control that is disabled; else the
\* activation, and for a fragment link the browser's own navigation to it
click(w, element) ==
  LET sent == [w EXCEPT !.clicked = Append(@, element)]
  IN  IF document[element].tag \in {"button", "input", "select", "textarea"} /\ IsDisabled(element) THEN w
      ELSE IF document[element].tag = "a" /\ StartsWith(document[element].href, "#") THEN replaceState(sent, document[element].href)
      ELSE sent

\* a variant that leaves a fragment link to the browser
runClickElement_by_default_navigation(call, args, w) ==
  LET Activate(target, shown) ==
        IF document[target].tag = "button" /\ IsDisabled(target) THEN Returned(result(call, FALSE, "Target button is disabled and cannot be clicked."), shown)
        ELSE Returned(result(call, TRUE, "Clicked " \o describeElement(target) \o "."), click(shown, target))
      Reveal(target) == Activate(target, addHighlight(scrollIntoView([w EXCEPT !.target = target], target, "center"), target))
      Choose(element, projectLink) == Reveal(IF projectLink # NoElement THEN projectLink ELSE element)
      Click(found, hint) ==
        IF found.threw THEN Raised(call, w)
        ELSE IF found.el = NoElement THEN Returned(result(call, FALSE, "Could not find an element to click."), w)
        ELSE Choose(found.el, IF document[found.el].card THEN chooseLinkFromProjectCard(found.el, hint) ELSE NoElement)
  IN  Click(findElement(args), readString(args, <<"text", "label", "target">>))

runClickElement(call, args, w) ==
  LET Activate(target, shown, href, section) ==
        IF document[target].tag = "button" /\ IsDisabled(target) THEN Returned(result(call, FALSE, "Target button is disabled and cannot be clicked."), shown)
        ELSE IF document[target].tag = "a" /\ StartsWith(href, "#") /\ section # NoElement
             THEN Returned(result(call, TRUE, "Moved to " \o href \o "."), replaceState(addHighlight(scrollIntoView(shown, section, "start"), section), href))
        ELSE Returned(result(call, TRUE, "Clicked " \o describeElement(target) \o "."), click(shown, target))
      Reveal(target) == Activate(target, addHighlight(scrollIntoView([w EXCEPT !.target = target], target, "center"), target), document[target].href, resolveSectionFromHint(document[target].href))
      Choose(element, projectLink) == Reveal(IF projectLink # NoElement THEN projectLink ELSE element)
      Click(found, hint) ==
        IF found.threw THEN Raised(call, w)
        ELSE IF found.el = NoElement THEN Returned(result(call, FALSE, "Could not find an element to click."), w)
        ELSE Choose(found.el, IF document[found.el].card THEN chooseLinkFromProjectCard(found.el, hint) ELSE NoElement)
  IN  Click(findElement(args), readString(args, <<"text", "label", "target">>))

\* a variant that also activates the target
runHighlightElement_activates(call, args, w) ==
  LET Highlight(found) ==
        IF found.threw THEN Raised(call, w)
        ELSE IF found.el = NoElement THEN Returned(result(call, FALSE, "Could not find an element to highlight."), w)
        ELSE Returned(result(call, TRUE, "Highlighted " \o describeElement(found.el) \o "."),
                      click(addHighlight(scrollIntoView([w EXCEPT !.target = found.el], found.el, "center"), found.el), found.el))
  IN  Highlight(findElement(args))

runHighlightElement(call, args, w) ==
  LET Highlight(found) ==
        IF found.threw THEN Raised(call, w)
        ELSE IF found.el = NoElement THEN Returned(result(call, FALSE, "Could not find an element to highlight."), w)
        ELSE Returned(result(call, TRUE, "Highlighted " \o describeElement(found.el) \o "."),
                      addHighlight(scrollIntoView([w EXCEPT !.target = found.el], found.el, "center"), found.el))
  IN  Highlight(findElement(args))

\* the message of the DOMException querySelector raises on a bad selector
SyntaxError == "Failed to execute 'querySelector' on 'Document': the selector is not valid."

\* a variant that passes over a field it cannot find
fillSingleField_skips_missing(call, fieldName, value, selector, w) ==
  LET Fill(target) ==
        IF target = NoElement THEN [threw |-> FALSE, error |-> "", output |-> fieldName \o " skipped", w |-> w]
        ELSE [threw |-> FALSE, error |-> "", output |-> fieldName \o " updated", w |-> addHighlight(setFieldValue([w EXCEPT !.target = target], target, value), target)]
      Locate(bySelector) ==
        IF bySelector.threw THEN [threw |-> TRUE, error |-> SyntaxError, output |-> "", w |-> w]
        ELSE Fill(IF bySelector.el # NoElement THEN bySelector.el ELSE findInputByFieldName(fieldName))
  IN  Locate(IF selector # "" THEN safeQuery(selector) ELSE [threw |-> FALSE, el |-> NoElement])

\* [threw, error, output, w]: threw marks an exception leaving the function,
\* its own Error or one passing through; error is its message
fillSingleField(call, fieldName, value, selector, w) ==
  LET Fill(target) ==
        IF target = NoElement THEN [threw |-> TRUE, error |-> "Could not find input field for \"" \o fieldName \o "\".", output |-> "", w |-> w]
        ELSE [threw |-> FALSE, error |-> "", output |-> fieldName \o " updated", w |-> addHighlight(setFieldValue([w EXCEPT !.target = target], target, value), target)]
      Locate(bySelector) ==
        IF bySelector.threw THEN [threw |-> TRUE, error |-> SyntaxError, output |-> "", w |-> w]
        ELSE Fill(IF bySelector.el # NoElement THEN bySelector.el ELSE findInputByFieldName(fieldName))
  IN  Locate(IF selector # "" THEN safeQuery(selector) ELSE [threw |-> FALSE, el |-> NoElement])

\* Object.entries(values) filtered to the entries whose value is a string
StringEntries(values) == SelectSeq(values.o, LAMBDA entry : entry[2].t = "string")

\* outputs.join(", ")
RECURSIVE JoinOutputs(_)
JoinOutputs(outputs) == IF Len(outputs) = 1 THEN outputs[1] ELSE outputs[1] \o ", " \o JoinOutputs(Tail(outputs))

\* the for loop over the updates, from entry i on; its try/catch turns an
\* exception of fillSingleField into a failed result
RECURSIVE FillUpdates(_, _, _, _, _, _)
FillUpdates(call, updates, i, outputs, selector, w) ==
  LET Step(one) ==
        IF one.threw THEN Returned(result(call, FALSE, one.error), one.w)
        ELSE FillUpdates(call, updates, i + 1, Append(outputs, one.output), selector, one.w)
  IN  IF i > Len(updates) THEN Returned(result(call, TRUE, "Filled " \o NatToStr(Len(outputs)) \o " field(s): " \o JoinOutputs(outputs) \o "."), w)
      ELSE Step(fillSingleField(call, updates[i][1], updates[i][2].s, selector, w))

runFillInput(call, args, w) ==
  LET Single(value, one) ==
        IF value = "" THEN Returned(result(call, FALSE, "Missing input value."), w)
        ELSE IF one.threw THEN Returned(result(call, FALSE, one.error), one.w)
        ELSE Returned(result(call, TRUE, one.output \o " with \"" \o Slice(value, 80) \o "\"."), one.w)
      Fill(selector, updates, value, named) ==
        IF Len(updates) > 0 THEN FillUpdates(call, updates, 1, <<>>, selector, w)
        ELSE Single(value, fillSingleField(call, IF named # "" THEN named ELSE "input", value, selector, w))
  IN  Fill(readString(args, <<"selector">>),
           IF isObject(Get(args, "values")) THEN StringEntries(Get(args, "values")) ELSE <<>>,
           readString(args, <<"value">>),
           readString(args, <<"fieldName", "name", "field">>))

\* [threw, result, w]
executeToolCall(call, w) ==
  IF ~isObject(call.args) THEN Returned(result(call, FALSE, "Invalid tool arguments."), w)
  ELSE IF call.name = "scroll_by" THEN runScrollBy(call, call.args, w)
  ELSE IF call.name = "navigate_to_section" THEN runNavigateToSection(call, call.args, w)
  ELSE IF call.name = "click_element" THEN runClickElement(call, call.args, w)
  ELSE IF call.name = "highlight_element" THEN runHighlightElement(call, call.args, w)
  ELSE IF call.name = "fill_input" THEN runFillInput(call, call.args, w)
  ELSE Returned(result(call, FALSE, "Unknown tool \"" \o call.name \o "\"."), w)

(***************************************************************************)
(* The planning route, POST /api/chat                                      *)
(***************************************************************************)
\* a variant with the cap one higher
MAX_TOOL_CALLS_PER_TURN_raised == 3 + 1

MAX_TOOL_CALLS_PER_TURN == 3

TOOL_NAMES == {"scroll_by", "navigate_to_section", "click_element", "highlight_element", "fill_input"}

\* Array.prototype.slice(0, n)
Take(seq, n) == SubSeq(seq, 1, IF Len(seq) < n THEN Len(seq) ELSE n)

\* Array.prototype.slice(-n)
Window(seq, n) == IF Len(seq) <= n THEN seq ELSE SubSeq(seq, Len(seq) - n + 1, Len(seq))

\* A part of the provider's answer: [text, call, name, args]; call says
\* whether it carries a functionCall.
TextPart(text) == [text |-> text, call |-> FALSE, name |-> "", args |-> Undefined]

CallPart(name, args) == [text |-> "", call |-> TRUE, name |-> name, args |-> args]

RECURSIVE JoinLines(_)
JoinLines(parts) == IF parts = <<>> THEN "" ELSE IF Len(parts) = 1 THEN parts[1].text ELSE parts[1].text \o "\n" \o JoinLines(Tail(parts))

extractText(parts) == Trim(JoinLines(parts))

parseFunctionArgs(value) == IF isObject(value) THEN value ELSE Obj(<<>>)

\* the parts that carry a call to one of the five actions, in order
KnownCalls(parts) == SelectSeq(parts, LAMBDA part : part.call /\ part.name \in TOOL_NAMES)

\* ids are fresh (crypto.randomUUID): the next unused numbers after `used`
extractToolCalls(parts, used) ==
  LET known == KnownCalls(parts)
      calls == [k \in 1..Len(known) |-> [id |-> used + k, name |-> known[k].name, args |-> parseFunctionArgs(known[k].args)]]
  IN  Take(calls, MAX_TOOL_CALLS_PER_TURN)

toToolResults(toolResults) == Take(toolResults, MAX_TOOL_CALLS_PER_TURN)

HISTORY_WINDOW == 10

\* The entries of the request that are messages (every entry the panel sends
\* is one), the last HISTORY_WINDOW of them, each content cut at 1200
toHistory(entries) ==
  LET kept == Window(entries, HISTORY_WINDOW)
  IN  [k \in 1..Len(kept) |-> [role |-> kept[k].role, content |-> Slice(kept[k].content, 1200)]]

\* The provider's outcome: [failed, parts].  The route answers [ok, body];
\* ok is response.ok and body the ChatResponse (an absent toolCalls is <<>>).
\* prompted is the conversation history the route wrote into its prompt.
POST(payload, outcome, used) ==
  LET toolResults == toToolResults(payload.toolResults)
      finalText == IF extractText(outcome.parts) # "" THEN extractText(outcome.parts) ELSE "I completed the requested action."
      assistantText == extractText(outcome.parts)
      toolCalls == extractToolCalls(outcome.parts, used)
  IN  IF outcome.failed
      THEN [ok |-> FALSE, prompted |-> toHistory(payload.history), body |-> [assistantMessage |-> "I ran into an error: Gemini API request failed.", toolCalls |-> <<>>, awaitingToolResults |-> FALSE]]
      ELSE IF Len(toolResults) > 0
      THEN [ok |-> TRUE, prompted |-> toHistory(payload.history), body |-> [assistantMessage |-> finalText, toolCalls |-> <<>>, awaitingToolResults |-> FALSE]]
      ELSE [ok |-> TRUE, prompted |-> toHistory(payload.history), body |-> [assistantMessage |-> IF assistantText # "" THEN assistantText ELSE IF Len(toolCalls) > 0 THEN "I will handle that now." ELSE "",
                                   toolCalls |-> toolCalls,
                                   awaitingToolResults |-> Len(toolCalls) > 0]]

(***************************************************************************)
(* The conversation loop: ChatPanel state and runConversation              *)
(* (chat-panel.tsx).  A message is [role, content]; its createdAt time     *)
(* stamp, the panel's open flag and the draft text are presentation and    *)
(* are left out.                                                           *)
(***************************************************************************)
MAX_HISTORY == 18

MAX_FLOW_ITEMS == 10

\* the bounds of the model
\* the turns a behaviour starts
MaxTurns == 2

\* the highlight timers that may be pending when an action starts
MaxTimers == 1

\* The state of the chat panel and of a turn under way, the page the
\* executor acts on, and what the behaviour has done so far.  probe holds the
\* last direct application of a function of the resolution engine, the
\* snapshot extractor or the executor.
VARIABLES messages, flowItems, pc, message, history, firstReply, toolCalls, toolResults, idx, request, page, turns, uuids, posts, proposed, ended, requestIgnored, probe

vars == <<document, probe, messages, isBusy, flowItems, pc, message, history, firstReply, toolCalls, toolResults, idx, request, page, turns, uuids, posts, proposed, ended, requestIgnored>>


createMessage(role, content) == [role |-> role, content |-> content]

Greeting == createMessage("assistant", "I can navigate this portfolio for you. Ask me to jump sections, highlight projects, click links, or fill the contact form.")

\* name.split("_").map(capitalise).join(" ")
RECURSIVE LabelRange(_, _, _)
LabelRange(name, lo, hi) ==
  IF lo > hi THEN ""
  ELSE IF lo = hi
       THEN (IF CharAt(name, lo) = "_" THEN " "
             ELSE IF lo = 1 \/ CharAt(name, lo - 1) = "_"
                  THEN (IF \E k \in 1..26 : CharAt(LowerChars, k) = CharAt(name, lo) THEN CharAt(UpperChars, CHOOSE k \in 1..26 : CharAt(LowerChars, k) = CharAt(name, lo)) ELSE CharAt(name, lo))
                  ELSE CharAt(name, lo))
  ELSE LET mid == (lo + hi) \div 2 IN LabelRange(name, lo, mid) \o LabelRange(name, mid + 1, hi)

formatToolLabel(name) == LabelRange(name, 1, Len(name))

\* extractPageSnapshot: the location with its fragment; the sections and
\* elements it lists are those of Doc
extractPageSnapshot(w) == [url |-> "http://localhost:3000/" \o w.fragment]

ChatRequest(msg, hist, w, results) == [message |-> msg, history |-> hist, pageSnapshot |-> extractPageSnapshot(w), toolResults |-> results]

NoRequest == [message |-> "", history |-> <<>>, pageSnapshot |-> [url |-> ""], toolResults |-> <<>>]

NoReply == [assistantMessage |-> "", toolCalls |-> <<>>, awaitingToolResults |-> FALSE]

\* What the provider may do with a request: answer with parts, fail (the
\* route answers 500), or never be reached (fetch rejects).
Answer(parts) == [kind |-> "answer", failed |-> FALSE, parts |-> parts]

ProviderError == [kind |-> "provider_error", failed |-> TRUE, parts |-> <<>>]

NetworkError == [kind |-> "network_error", failed |-> FALSE, parts |-> <<>>]

\* JSON.stringify of a ChatResponse without toolCalls
stringify(body) == "{\"assistantMessage\":\"" \o body.assistantMessage \o "\",\"awaitingToolResults\":" \o (IF body.awaitingToolResults THEN "true" ELSE "false") \o "}"

\* [threw, error, reply]
postChat(payload, outcome, used) ==
  LET response == POST(payload, outcome, used)
  IN  IF outcome.kind = "network_error" THEN [threw |-> TRUE, error |-> "Failed to fetch", reply |-> NoReply]
      ELSE IF ~response.ok THEN [threw |-> TRUE, error |-> stringify(response.body), reply |-> NoReply]
      ELSE [threw |-> FALSE, error |-> "", reply |-> response.body]

\* a variant that keeps the oldest entries of a full window
pushMessage_keeps_oldest(list, entry) == Take(Append(list, entry), MAX_HISTORY)

\* [...list, entry].slice(-MAX_HISTORY)
pushMessage(list, entry) == Window(Append(list, entry), MAX_HISTORY)

FailureMessage(text) == createMessage("assistant", "I couldn't complete that request. " \o text)

FallbackMessage == createMessage("assistant", "I could not generate a response. Please rephrase your request.")

ToolMessage(r) == createMessage("tool", r.name \o ": " \o r.output)

RunningItem(call) == [id |-> call.id, label |-> formatToolLabel(call.name), detail |-> "Executing action...", status |-> "running"]

addFlowItem(items, call) == Window(Append(items, RunningItem(call)), MAX_FLOW_ITEMS)

settleFlowItem(items, call, r) == [k \in 1..Len(items) |-> IF items[k].id # call.id THEN items[k] ELSE [items[k] EXCEPT !.detail = r.output, !.status = IF r.success THEN "success" ELSE "failed"]]

\* no function has been applied directly yet
NoProbe == [op |-> "none", text |-> "", k |-> 0, el |-> NoElement, sel |-> "", out |-> NoElement, call |-> [id |-> 0, name |-> "", args |-> Undefined], result |-> [toolCallId |-> 0, name |-> "", success |-> FALSE, output |-> ""], before |-> InitialPage, after |-> InitialPage, n |-> 0]

Init ==
  /\ document = Doc
  /\ probe = NoProbe
  /\ messages = <<Greeting>>
  /\ isBusy = FALSE
  /\ flowItems = <<>>
  /\ pc = "idle"
  /\ message = ""
  /\ history = <<>>
  /\ firstReply = NoReply
  /\ toolCalls = <<>>
  /\ toolResults = <<>>
  /\ idx = 0
  /\ request = NoRequest
  /\ page = InitialPage
  /\ turns = 0
  /\ uuids = 0
  /\ posts = 0
  /\ proposed = <<>>
  /\ ended = "none"
  /\ requestIgnored = FALSE

\* a variant whose finally block leaves the busy flag as it is
Finish_stays_busy(finalMessages, how) ==
  /\ messages' = finalMessages
  /\ isBusy' = isBusy
  /\ pc' = "idle"
  /\ message' = ""
  /\ history' = <<>>
  /\ toolCalls' = <<>>
  /\ toolResults' = <<>>
  /\ idx' = 0
  /\ request' = NoRequest
  /\ ended' = how

\* the finally block, after the last setMessages: the call returns
Finish(finalMessages, how) ==
  /\ messages' = finalMessages
  /\ isBusy' = FALSE
  /\ pc' = "idle"
  /\ message' = ""
  /\ history' = <<>>
  /\ toolCalls' = <<>>
  /\ toolResults' = <<>>
  /\ idx' = 0
  /\ request' = NoRequest
  /\ ended' = how

\* a variant whose catch block puts the failure message in the place of the
\* latest entry
Catch_replaces_latest(text, how) == Finish(pushMessage(SubSeq(messages, 1, Len(messages) - 1), FailureMessage(text)), how)

\* the catch block: one failure message on top of the messages shown
Catch(text, how) == Finish(pushMessage(messages, FailureMessage(text)), how)

\* a variant without the busy check
Accepts_while_busy(msg, busy) == msg # ""

\* if (!message || isBusy) return;
Accepts(msg, busy) == msg # "" /\ ~busy

\* runConversation up to its first await: the user's message is shown and
\* the planning call leaves
RequestAccepted(rawMessage) ==
  LET msg == Trim(rawMessage)
      hist == pushMessage(messages, createMessage("user", msg))
  IN  /\ Accepts(msg, isBusy)
      /\ turns < MaxTurns
      /\ turns' = turns + 1
      /\ isBusy' = TRUE
      /\ message' = msg
      /\ history' = hist
      /\ messages' = hist
      /\ request' = ChatRequest(msg, hist, page, <<>>)
      /\ posts' = 1
      /\ pc' = "planning"
      /\ firstReply' = NoReply
      /\ toolCalls' = <<>>
      /\ toolResults' = <<>>
      /\ idx' = 0
      /\ proposed' = <<>>
      /\ ended' = "none"
      /\ requestIgnored' = FALSE
      /\ UNCHANGED <<document, probe, flowItems, page, uuids>>

\* runConversation returning at once
RequestIgnored(rawMessage) ==
  /\ ~Accepts(Trim(rawMessage), isBusy)
  /\ requestIgnored' = (requestIgnored \/ isBusy)
  /\ UNCHANGED <<document, probe, messages, isBusy, flowItems, pc, message, history, firstReply, toolCalls, toolResults, idx, request, page, turns, uuids, posts, proposed, ended>>

runConversation(rawMessage) == RequestAccepted(rawMessage) \/ RequestIgnored(rawMessage)

\* a variant that walks the calls from the last to the first
CallAt_reversed(calls, i) == calls[Len(calls) + 1 - i]

\* for (const call of toolCalls): the call of the iteration under way
CallAt(calls, i) == calls[i]

\* a variant that leaves the loop after a failed result
HasNextCall_until_failure(calls, i, results) == i < Len(calls) /\ results[i].success

\* for (const call of toolCalls): whether another iteration follows
HasNextCall(calls, i, results) == i < Len(calls)

\* a variant that needs two calls to start executing
HasActions_two(reply, calls) == reply.awaitingToolResults /\ Len(calls) > 1

\* if (firstReply.awaitingToolResults && toolCalls.length > 0)
HasActions(reply, calls) == reply.awaitingToolResults /\ Len(calls) > 0

\* the planning call answers
PlanningAnswered(outcome) ==
  LET got == postChat(request, outcome, uuids)
      reply == got.reply
      spoken == Trim(reply.assistantMessage) # ""
      hist == IF spoken THEN pushMessage(history, createMessage("assistant", reply.assistantMessage)) ELSE history
      calls == Take(reply.toolCalls, MAX_TOOL_CALLS_PER_TURN)
  IN  /\ pc = "planning"
      /\ ~got.threw
      /\ firstReply' = reply
      /\ proposed' = KnownCalls(outcome.parts)
      /\ uuids' = uuids + Len(KnownCalls(outcome.parts))
      /\ IF HasActions(reply, calls)
         THEN /\ history' = hist
              /\ messages' = hist
              /\ toolCalls' = calls
              /\ toolResults' = <<>>
              /\ idx' = 1
              /\ flowItems' = addFlowItem(flowItems, CallAt(calls, 1))
              /\ pc' = "delayBefore"
              /\ UNCHANGED <<isBusy, message, request, ended>>
         ELSE /\ Finish(IF spoken THEN hist ELSE pushMessage(hist, FallbackMessage), "answered")
              /\ UNCHANGED flowItems
      /\ UNCHANGED <<document, probe, page, turns, posts, requestIgnored>>

\* the planning call fails: postChat throws
PlanningFailed(outcome) ==
  LET got == postChat(request, outcome, uuids)
  IN  /\ pc = "planning"
      /\ got.threw
      /\ Catch(got.error, "planning_failed")
      /\ UNCHANGED <<document, probe, flowItems, firstReply, page, turns, uuids, posts, proposed, requestIgnored>>

\* delay(140) is over: the action runs, its result is recorded and shown
ExecuteCall ==
  LET Record(call, done) ==
        /\ page' = done.w
        /\ IF done.threw
           THEN /\ Catch(SyntaxError, "execution_failed")
                /\ UNCHANGED flowItems
           ELSE /\ toolResults' = Append(toolResults, done.result)
                /\ flowItems' = settleFlowItem(flowItems, call, done.result)
                /\ history' = pushMessage(history, ToolMessage(done.result))
                /\ messages' = pushMessage(history, ToolMessage(done.result))
                /\ pc' = "delayAfter"
                /\ UNCHANGED <<isBusy, message, toolCalls, idx, request, ended>>
      Run(call) == Record(call, executeToolCall(call, Fresh(page)))
  IN  /\ pc = "delayBefore"
      /\ Len(page.timers) <= MaxTimers
      /\ Run(CallAt(toolCalls, idx))
      /\ UNCHANGED <<document, probe, firstReply, turns, uuids, posts, proposed, requestIgnored>>

\* delay(200) is over: the next iteration starts, or the finalizing call leaves
AfterDelay ==
  /\ pc = "delayAfter"
  /\ IF HasNextCall(toolCalls, idx, toolResults)
     THEN /\ idx' = idx + 1
          /\ flowItems' = addFlowItem(flowItems, CallAt(toolCalls, idx + 1))
          /\ pc' = "delayBefore"
          /\ UNCHANGED <<request, posts>>
     ELSE /\ request' = ChatRequest(message, history, page, toolResults)
          /\ posts' = posts + 1
          /\ pc' = "finalizing"
          /\ UNCHANGED <<idx, flowItems>>
  /\ UNCHANGED <<document, probe, messages, isBusy, message, history, firstReply, toolCalls, toolResults, page, turns, uuids, proposed, ended, requestIgnored>>

\* the finalizing call answers
FinalizingAnswered(outcome) ==
  LET got == postChat(request, outcome, uuids)
      text == IF Trim(got.reply.assistantMessage) # "" THEN Trim(got.reply.assistantMessage) ELSE "Action completed."
  IN  /\ pc = "finalizing"
      /\ ~got.threw
      /\ Finish(pushMessage(history, createMessage("assistant", text)), "completed")
      /\ UNCHANGED <<document, probe, flowItems, firstReply, page, turns, uuids, posts, proposed, requestIgnored>>

\* the finalizing call fails
FinalizingFailed(outcome) ==
  LET got == postChat(request, outcome, uuids)
  IN  /\ pc = "finalizing"
      /\ got.threw
      /\ Catch(got.error, "finalizing_failed")
      /\ UNCHANGED <<document, probe, flowItems, firstReply, page, turns, uuids, posts, proposed, requestIgnored>>

\* a highlight's 2600 ms timer fires: timers of equal delay fire in the
\* order they were set
TimerFires ==
  /\ page.timers # <<>>
  /\ page' = [page EXCEPT !.timers = Tail(@), !.highlighted = @ \ {Head(page.timers)}]
  /\ UNCHANGED <<document, probe, messages, isBusy, flowItems, pc, message, history, firstReply, toolCalls, toolResults, idx, request, turns, uuids, posts, proposed, ended, requestIgnored>>

(***************************************************************************)
(* Inputs: what the user types and what the provider answers               *)
(***************************************************************************)
UserMessages == {"   ", "Take me to contact section. "}

NavigateContact == CallPart("navigate_to_section", Obj(<< <<"sectionId", Str("contact")>> >>))

HighlightTestimonials == CallPart("highlight_element", Obj(<< <<"text", Str("testimonials")>> >>))

ScrollDown == CallPart("scroll_by", Obj(<< <<"delta", Num("400")>> >>))

FillName == CallPart("fill_input", Obj(<< <<"fieldName", Str("name")>>, <<"value", Str("Alex")>> >>))

HighlightChatInput == CallPart("highlight_element", Obj(<< <<"sectionId", Str("chat-input")>> >>))

FillChatInput == CallPart("fill_input", Obj(<< <<"selector", Str("#chat-input")>>, <<"value", Str("hi")>> >>))

OpenTab == CallPart("open_tab", Obj(<<>>))

ClickFirstLink == CallPart("click_element", Obj(<< <<"selector", Str("a")>> >>))

\* What the provider answers to a planning prompt: nothing, text alone, an
\* action it does not have, one action, a failing action followed by a
\* working one, more actions than the cap, actions aimed at the chat panel,
\* a navigation followed by a click on a fragment link; or it fails, or it is
\* not reached
PlanningOutcomes ==
  { Answer(<<>>),
    Answer(<<TextPart(" Sure, on it. ")>>),
    Answer(<<OpenTab>>),
    Answer(<<NavigateContact>>),
    Answer(<<TextPart("On it."), HighlightTestimonials, NavigateContact>>),
    Answer(<<ScrollDown, OpenTab, HighlightTestimonials, NavigateContact, FillName>>),
    Answer(<<HighlightChatInput, FillChatInput>>),
    Answer(<<NavigateContact, ClickFirstLink>>),
    ProviderError,
    NetworkError }

FinalizingOutcomes == {Answer(<<>>), Answer(<<TextPart("Done.")>>), ProviderError, NetworkError}

Next ==
  \/ \E raw \in UserMessages : runConversation(raw)
  \/ \E outcome \in PlanningOutcomes : PlanningAnswered(outcome)
  \/ \E outcome \in PlanningOutcomes : PlanningFailed(outcome)
  \/ ExecuteCall
  \/ AfterDelay
  \/ \E outcome \in FinalizingOutcomes : FinalizingAnswered(outcome)
  \/ \E outcome \in FinalizingOutcomes : FinalizingFailed(outcome)
  \/ TimerFires

Spec == Init /\ [][Next]_vars

(***************************************************************************)
(* Self-exclusion: the chat panel is never a target                        *)
(***************************************************************************)
\* the hint bundles findElement is given by the calls of the turn under way
ResolvingCalls == {i \in 1..Len(toolCalls) : toolCalls[i].name \in {"click_element", "highlight_element"}}

\* C1: whatever the hint bundle, findElement never returns an element that
\* lies inside the chat panel: not by the section hint, not by the selector,
\* not by the text hint.
C1_findElement_never_returns_chat_ui ==
  \A i \in ResolvingCalls : findElement(toolCalls[i].args).el # NoElement => ~isInsideChatUi(findElement(toolCalls[i].args).el)

\* C2: fill_input never writes into a field of the chat panel, nor
\* highlights or focuses one, whether the field is found by selector or by
\* field name.
C2_fill_input_never_touches_chat_ui ==
  /\ \A e \in FieldElements : isInsideChatUi(e) => page.value[e] = ""
  /\ (pc = "delayAfter" /\ toolCalls[idx].name = "fill_input" /\ page.target # NoElement) =>
        /\ ~isInsideChatUi(page.target)
        /\ page.focus = NoElement \/ ~isInsideChatUi(page.focus)

(***************************************************************************)
(* The conversation loop                                                   *)
(***************************************************************************)
Min(a, b) == IF a < b THEN a ELSE b

Executing == pc \in {"delayBefore", "delayAfter"}

\* C3: a turn executes at most 3 action requests, whatever number the
\* planning response carries: they are its first 3, in response order; the
\* others are dropped, and nothing of a turn is left for the next one.
C3_at_most_three_actions_per_turn ==
  /\ Len(toolResults) <= 3
  /\ Len(toolResults) <= Len(toolCalls)
  /\ \A i \in 1..Len(toolResults) : toolResults[i].toolCallId = toolCalls[i].id
  /\ (Executing \/ pc = "finalizing") =>
        /\ Len(toolCalls) = Min(Len(proposed), 3)
        /\ \A i \in 1..Len(toolCalls) : toolCalls[i].name = proposed[i].name /\ toolCalls[i].args = parseFunctionArgs(proposed[i].args)
  /\ pc \in {"idle", "planning"} => toolCalls = <<>> /\ toolResults = <<>>

\* a second turn that runs one action after a first turn whose planning
\* response carried four and that executed three
C3_witness == turns = 2 /\ pc = "finalizing" /\ Len(proposed) = 1 /\ Len(toolResults) = 1 /\ Len(flowItems) = 4

\* C4: at most one turn is in flight.  A runConversation request that
\* arrives while the loop is not idle appends no message, makes no call to
\* the planning service, executes no action and leaves the turn under way
\* as it is.
C4_one_turn_in_flight ==
  [][pc # "idle" =>
       /\ turns' = turns
       /\ \A raw \in UserMessages : runConversation(raw) =>
             UNCHANGED <<document, probe, messages, isBusy, flowItems, pc, message, history, firstReply, toolCalls, toolResults, idx, request, page, turns, uuids, posts>>]_vars

\* a request was ignored while the turn waited between two actions
C4_witness == requestIgnored /\ pc = "delayAfter" /\ idx < Len(toolCalls)

\* the entries the turn under way has appended so far
TurnEntries ==
  <<createMessage("user", message)>>
    \o (IF Trim(firstReply.assistantMessage) # "" THEN <<createMessage("assistant", firstReply.assistantMessage)>> ELSE <<>>)
    \o [i \in 1..Len(toolResults) |-> ToolMessage(toolResults[i])]

\* C5: the actions of a turn run one after another in the order of the
\* planning response: action k+1 starts only when action k has returned
\* and its result is in the history as a tool entry, so the tool entries
\* are in execution order.
C5_actions_run_in_order ==
  /\ pc = "delayBefore" => Len(toolResults) = idx - 1 /\ idx <= Len(toolCalls)
  /\ pc = "delayAfter" => Len(toolResults) = idx /\ idx <= Len(toolCalls)
  /\ pc = "finalizing" => Len(toolResults) = Len(toolCalls)
  /\ \A i \in 1..Len(toolResults) : toolResults[i].toolCallId = toolCalls[i].id /\ toolResults[i].name = toolCalls[i].name
  /\ pc # "idle" => history = messages /\ Window(history, Len(TurnEntries)) = TurnEntries

\* three actions done, the second having failed
C5_witness == pc = "delayAfter" /\ idx = 3 /\ Len(toolResults) = 3 /\ ~toolResults[2].success /\ toolResults[3].success

\* an await of runConversation resumes: the turn leaves the position `from`
\* for one of the positions `to`
Resumes(from, to) == pc = from /\ pc' \in to

\* Each call to the planning service returns or fails, each delay ends and
\* each highlight timer fires.  At each of its awaits the turn has a step to
\* take (an answer or a failure of the call, the action, the next iteration
\* or the finalizing call), so fairness holds nothing back that Next allows.
FairSpec ==
  /\ Spec
  /\ WF_pc(Resumes("planning", {"delayBefore", "idle"}))
  /\ WF_pc(Len(page.timers) <= MaxTimers /\ Resumes("delayBefore", {"delayAfter", "idle"}))
  /\ WF_pc(Resumes("delayAfter", {"delayBefore", "finalizing"}))
  /\ WF_pc(Resumes("finalizing", {"idle"}))
  /\ WF_vars(TimerFires)

\* the step in which a turn ends in its catch block
FailedStep == pc # "idle" /\ ended' \in {"planning_failed", "finalizing_failed", "execution_failed"}

IsFailureMessage(entry) == entry.role = "assistant" /\ StartsWith(entry.content, "I couldn't complete that request. ")

Last(seq) == seq[Len(seq)]

\* C6: when a call to the planning service fails, be it the planning or
\* the finalizing call, the turn appends exactly one failure message, keeps
\* what it appended before (user message, planning text, tool results) and
\* returns to idle, where a new turn is accepted; after a failed planning
\* call the turn has contributed the user message and one failure message.
C6_failed_call_appends_one_failure_message ==
  [][FailedStep =>
       /\ IsFailureMessage(Last(messages'))
       /\ messages' = pushMessage(messages, Last(messages'))
       /\ messages = history
       /\ Window(messages, Len(TurnEntries)) = TurnEntries
       /\ Len(TurnEntries) < MAX_HISTORY
       /\ \A k \in 1..Len(TurnEntries) : ~IsFailureMessage(TurnEntries[k])
       /\ pc' = "idle"
       /\ \A raw \in UserMessages : Trim(raw) # "" => Accepts(Trim(raw), isBusy')
       /\ pc = "planning" => Window(messages', 2) = <<createMessage("user", message), Last(messages')>>]_vars

\* a second turn under way after a first turn whose finalizing call failed
\* with two tool results recorded
C6_witness ==
  /\ turns = 2
  /\ pc = "planning"
  /\ ended = "none"
  /\ Len(messages) >= 6
  /\ IsFailureMessage(messages[Len(messages) - 1])
  /\ messages[Len(messages) - 2].role = "tool"
  /\ messages[Len(messages) - 3].role = "tool"

\* C7: every turn that starts returns to idle.  A turn makes at most two
\* calls to the planning service, one planning and at most one finalizing
\* call; a failed call is not repeated; the busy flag is cleared on every
\* way out.
C7_every_turn_returns_to_idle ==
  /\ [](posts <= 2)
  /\ [](pc = "idle" <=> ~isBusy)
  /\ [](pc = "planning" \/ Executing => posts = 1)
  /\ [](pc = "finalizing" => posts = 2)
  /\ [][FailedStep => posts' = posts /\ ~isBusy']_vars
  /\ (isBusy ~> ~isBusy)

\* a turn has ended after its finalizing call, the second of the turn, failed
C7_witness == turns >= 1 /\ pc = "idle" /\ ~isBusy /\ ended = "finalizing_failed" /\ posts = 2

\* the step in which the planning call's answer is taken
PlanningStep == pc = "planning" /\ pc' # "planning" /\ ended' # "planning_failed"

\* C8: the turn executes and then makes the finalizing call if and only
\* if the planning response carries an action request; with none it goes
\* back to idle at once, and the fallback message is appended exactly when
\* the response has neither requests nor text.
C8_executes_iff_requests ==
  /\ [][PlanningStep =>
          /\ pc' = "delayBefore" <=> Len(firstReply'.toolCalls) > 0
          /\ pc' = "idle" <=> Len(firstReply'.toolCalls) = 0
          /\ pc' = "idle" => posts' = 1 /\ page' = page
          /\ Last(messages') = FallbackMessage <=> (Len(firstReply'.toolCalls) = 0 /\ Trim(firstReply'.assistantMessage) = "")]_vars
  /\ [](Executing \/ pc = "finalizing" => Len(firstReply.toolCalls) > 0)
  /\ [][pc = "finalizing" /\ pc' = "idle" => posts = 2]_vars
  /\ (Executing ~> pc = "finalizing")

\* a turn ended with the fallback message, the provider having asked only
\* for an action that does not exist
C8_witness == pc = "idle" /\ ended = "answered" /\ Last(messages) = FallbackMessage /\ Len(proposed) = 0 /\ Len(flowItems) = 0 /\ turns = 1

\* C9: a failed action result does not end the turn: the capped requests
\* that remain are executed, and the finalizing call carries the results of
\* all the executed requests, failed ones included.
C9_failed_action_does_not_abort ==
  /\ [](pc = "finalizing" => request.toolResults = toolResults /\ Len(toolResults) = Len(toolCalls))
  /\ [](ended # "execution_failed")
  /\ [][Executing => pc' # "idle"]_vars
  /\ [][pc = "delayAfter" /\ idx < Len(toolCalls) /\ pc' # pc => pc' = "delayBefore" /\ idx' = idx + 1]_vars

\* the finalizing call carries a failed result followed by a success
C9_witness == pc = "finalizing" /\ Len(request.toolResults) = 2 /\ ~request.toolResults[1].success /\ request.toolResults[2].success

(***************************************************************************)
(* The executor's contract                                                 *)
(***************************************************************************)
Request(id, name, args) == [id |-> id, name |-> name, args |-> args]

\* Requests of each of the five kinds, well formed and not, a request for
\* an action that does not exist, and requests whose args are no object
DirectCalls ==
  { Request(101, "scroll_by", Obj(<< <<"delta", Num("-250")>> >>)),
    Request(102, "scroll_by", Obj(<< <<"delta", Str("far")>> >>)),
    Request(103, "navigate_to_section", Obj(<< <<"section", Str("my work")>> >>)),
    Request(104, "navigate_to_section", Obj(<<>>)),
    Request(105, "click_element", Obj(<< <<"selector", Str("a[[")>>, <<"text", Str("send message")>> >>)),
    Request(106, "click_element", Obj(<< <<"text", Str("second project")>>, <<"target", Str("live demo")>> >>)),
    Request(107, "click_element", Obj(<< <<"selector", Str("#chat-input")>> >>)),
    Request(108, "highlight_element", Obj(<< <<"selector", Str("#contact-form")>> >>)),
    Request(109, "highlight_element", Obj(<< <<"selector", Str("div >")>> >>)),
    Request(110, "fill_input", Obj(<< <<"values", Obj(<< <<"name", Str("Alex")>>, <<"phone", Str("555")>> >>)>> >>)),
    Request(111, "fill_input", Obj(<< <<"selector", Str("input[")>>, <<"fieldName", Str("email")>>, <<"value", Str("alex@test.com")>> >>)),
    Request(112, "fill_input", Obj(<< <<"fieldName", Str("email")>> >>)),
    Request(113, "open_tab", Obj(<< <<"url", Str("https://example.com")>> >>)),
    Request(114, "scroll_by", Arr),
    Request(115, "highlight_element", Null),
    Request(116, "fill_input", Str("{}")),
    Request(117, "click_element", Undefined) }

\* executeToolCall on the page as it is now
Outcome(call) == executeToolCall(call, Fresh(page))

\* C10: executeToolCall returns one result for every request and never
\* raises: for the five kinds of action, for a name it does not know and
\* for args that are no object.  The result bears the request's id and
\* name.  The finalizing call is sent one result for each executed request,
\* in the order of execution.
C10_one_result_per_request ==
  /\ \A call \in DirectCalls : \A done \in {Outcome(call)} :
        /\ ~done.threw
        /\ done.result.toolCallId = call.id
        /\ done.result.name = call.name
        /\ done.result.success \in BOOLEAN
        /\ ~isObject(call.args) \/ call.name \notin TOOL_NAMES => ~done.result.success /\ done.w = Fresh(page)
  /\ ended # "execution_failed"
  /\ \A i \in 1..Len(toolResults) : toolResults[i].toolCallId = toolCalls[i].id /\ toolResults[i].name = toolCalls[i].name
  /\ pc = "finalizing" =>
        /\ Len(request.toolResults) = Len(toolCalls)
        /\ \A i \in 1..Len(toolCalls) : request.toolResults[i].toolCallId = toolCalls[i].id /\ request.toolResults[i].name = toolCalls[i].name

\* the finalizing call carries three results, and on the page as it is then
\* a selector that is no selector gives a failed result, not an exception
C10_witness ==
  /\ pc = "finalizing"
  /\ Len(request.toolResults) = 3
  /\ request.toolResults[1].success /\ ~request.toolResults[2].success
  /\ ~Outcome(Request(109, "highlight_element", Obj(<< <<"selector", Str("div >")>> >>))).result.success
  /\ Outcome(Request(106, "click_element", Obj(<< <<"text", Str("second project")>>, <<"target", Str("live demo")>> >>))).result.success

(***************************************************************************)
(* The snapshot of the finalizing call                                     *)
(***************************************************************************)
\* the step on which the finalizing call leaves
FinalizingLeaves == pc = "delayAfter" /\ pc' = "finalizing"

\* a result that reports a move of the location
MovedLocation(r) == r.success /\ (r.name = "navigate_to_section" \/ (r.name = "click_element" /\ StartsWith(r.output, "Moved to #")))

\* the successful navigate_to_section calls of the turn after which no
\* action moved the location again
LastNavigations(results) ==
  {i \in 1..Len(results) :
     /\ results[i].name = "navigate_to_section" /\ results[i].success
     /\ \A j \in (i + 1)..Len(results) : ~MovedLocation(results[j])}

\* the section a navigate_to_section call asks for
SectionAskedFor(call) == resolveSectionFromHint(readString(call.args, <<"sectionId", "section", "target">>))

EarlierAnswer == Answer(<<ScrollDown, OpenTab, HighlightTestimonials, NavigateContact, FillName>>)

EarlierTurn ==
  << createMessage("user", "Take me to contact section."),
     createMessage("assistant", "I will handle that now."),
     createMessage("tool", "scroll_by: Scrolled down by 400 pixels."),
     createMessage("tool", "highlight_element: Could not find an element to highlight."),
     createMessage("tool", "navigate_to_section: Moved to section \"contact\"."),
     createMessage("assistant", "Done.") >>

EarlierFlow(used) ==
  << [id |-> used + 1, label |-> "Scroll By", detail |-> "Scrolled down by 400 pixels.", status |-> "success"],
     [id |-> used + 2, label |-> "Highlight Element", detail |-> "Could not find an element to highlight.", status |-> "failed"],
     [id |-> used + 3, label |-> "Navigate To Section", detail |-> "Moved to section \"contact\".", status |-> "success"] >>

\* every variable but the count of turns, as the two turns leave it
AfterTwoTurns ==
  /\ document = Doc
  /\ probe = NoProbe
  /\ messages = <<Greeting>> \o EarlierTurn \o EarlierTurn
  /\ isBusy = FALSE
  /\ flowItems = EarlierFlow(0) \o EarlierFlow(4)
  /\ pc = "idle"
  /\ message = ""
  /\ history = <<>>
  /\ firstReply = POST(NoRequest, EarlierAnswer, 4).body
  /\ toolCalls = <<>>
  /\ toolResults = <<>>
  /\ idx = 0
  /\ request = NoRequest
  /\ page = [InitialPage EXCEPT !.fragment = "#contact", !.target = getElementById("contact"), !.scrolledInto = << <<getElementById("contact"), "start">> >>]
  /\ uuids = 8
  /\ posts = 2
  /\ proposed = KnownCalls(EarlierAnswer.parts)
  /\ ended = "completed"
  /\ requestIgnored = FALSE

\* the two turns have been made: reached from Init
TwoTurnsMade == AfterTwoTurns /\ turns = MaxTurns

\* the panel after the two turns, with the turns of the behaviour counted
\* from here
LaterInit == AfterTwoTurns /\ turns = 0

LaterSpec == LaterInit /\ [][Next]_vars

\* the history the route writes into the prompt of the call in flight
Prompted == POST(request, Answer(<<>>), uuids).prompted

\* the steps of a turn that append an entry: all but the end of delay(200)
AppendsEntry == pc' # pc /\ pc # "delayAfter"

\* C12: the messages shown and the history of the turn hold at most 18
\* entries; a step that appends puts one entry at the end and drops the
\* oldest entry exactly when the window was full, keeping the rest in order,
\* and no other step changes the messages; and the route prompts with the
\* last 10 entries of the history it is sent, in the same order.
C12_history_windows_truncate ==
  [][/\ Len(messages') <= MAX_HISTORY /\ Len(history') <= MAX_HISTORY
     /\ ~AppendsEntry => messages' = messages
     /\ AppendsEntry =>
          LET dropped == IF Len(messages) = MAX_HISTORY THEN 1 ELSE 0
          IN  /\ Len(messages') = Len(messages) + 1 - dropped
              /\ SubSeq(messages', 1, Len(messages') - 1) = SubSeq(messages, 1 + dropped, Len(messages))
     /\ pc' \in {"planning", "finalizing"} =>
          LET sent == request'.history
              kept == IF Len(sent) < HISTORY_WINDOW THEN Len(sent) ELSE HISTORY_WINDOW
          IN  /\ sent = history'
              /\ Len(Prompted') = kept
              /\ \A k \in 1..kept : Prompted'[k] = sent[Len(sent) - kept + k]]_vars

\* a finalizing call is in flight with a full window from which the greeting
\* and the first turn's request have been dropped; the route prompts with
\* the last 10 of its 18 entries
C12_witness ==
  /\ pc = "finalizing"
  /\ Len(history) = MAX_HISTORY
  /\ history[1] # Greeting
  /\ history[1].role = "assistant"
  /\ Len(request.history) = MAX_HISTORY
  /\ Len(Prompted) = HISTORY_WINDOW
  /\ Prompted[1] = history[9]

(***************************************************************************)
(* Selector synthesis (page-snapshot.ts)                                   *)
(***************************************************************************)
\* value.replace(/\\/g, "\\\\").replace(/"/g, '\\"')
RECURSIVE escapeAttribute(_)
escapeAttribute(value) ==
  IF value = "" THEN ""
  ELSE (IF CharAt(value, 1) \in {"\\", "\""} THEN "\\" \o CharAt(value, 1) ELSE CharAt(value, 1)) \o escapeAttribute(SubSeq(value, 2, Len(value)))

\* CSS.escape(value) for the characters of the model: a letter, a digit
\* after the first character, '_' and '-' stand as they are, a leading
\* digit becomes its code point escape, any other character gets a backslash
RECURSIVE EscapeFrom(_, _)
EscapeFrom(value, i) ==
  IF i > Len(value) THEN ""
  ELSE (IF i = 1 /\ IsDigit(CharAt(value, 1)) THEN "\\3" \o CharAt(value, 1) \o " "
        ELSE IF IsIdentChar(CharAt(value, i)) THEN CharAt(value, i)
        ELSE "\\" \o CharAt(value, i)) \o EscapeFrom(value, i + 1)

escapeCssIdentifier(value) == EscapeFrom(value, 1)

\* the while loop of buildSelector: segments are put in front of the path
\* until an ancestor with an id, the body, or four segments
RECURSIVE PathOf(_, _, _)
PathOf(current, length, path) ==
  LET Joined(segment) == IF path = "" THEN segment ELSE segment \o " > " \o path
  IN  IF current = NoElement \/ length >= 4 THEN path
      ELSE IF document[current].id # "" THEN Joined("#" \o escapeCssIdentifier(document[current].id))
      ELSE PathOf(document[current].parent, length + 1, Joined(document[current].tag \o ":nth-of-type(" \o NatToStr(NthOfType(current)) \o ")"))

buildSelector(element) ==
  LET tag == document[element].tag
      byName == tag \o "[name=\"" \o escapeAttribute(document[element].name) \o "\"]"
      byHref == "a[href=\"" \o escapeAttribute(document[element].href) \o "\"]"
  IN  IF document[element].id # "" THEN "#" \o escapeCssIdentifier(document[element].id)
      ELSE IF document[element].name # "" /\ Cardinality(querySelectorAll(byName)) = 1 THEN byName
      ELSE IF document[element].href # "" /\ tag = "a" /\ Cardinality(querySelectorAll(byHref)) = 1 THEN byHref
      ELSE PathOf(element, 0, "")

(***************************************************************************)
(* Direct applications.  The functions of the resolution engine, the       *)
(* snapshot extractor and the executor are applied one at a time to a      *)
(* document and a page drawn at the start: the rendered page and trees     *)
(* that differ from it in the attributes the functions read.               *)
(***************************************************************************)
\* the applications a behaviour makes
MaxApplications == 1

\* the rendered page with the cards' data-project-order turned round: the
\* first card in document order is the second by order, the third the first
ReorderedPage == [e \in DOMAIN Doc |-> IF ~Doc[e].card THEN Doc[e] ELSE [Doc[e] EXCEPT !.order = IF @ = "1" THEN "2" ELSE IF @ = "2" THEN "3" ELSE "1"]]

\* the rendered page with cards that carry no usable order but the first,
\* which is marked as the third
UnorderedPage == [e \in DOMAIN Doc |-> IF ~Doc[e].card THEN Doc[e] ELSE [Doc[e] EXCEPT !.order = IF @ = "1" THEN "3" ELSE ""]]

\* the rendered page with a contact form whose e-mail input has the id
\* "email" and whose subject input, message textarea and submit button are
\* disabled
OtherFormPage ==
  [e \in DOMAIN Doc |->
     IF Doc[e].id = "contact-email" THEN [Doc[e] EXCEPT !.id = "email"]
     ELSE IF Doc[e].id \in {"contact-subject", "contact-message"} \/ Doc[e].own = "Send Message" THEN [Doc[e] EXCEPT !.disabled = TRUE]
     ELSE Doc[e]]

\* the rendered page with a second card whose links are named "Source" and
\* "Docs" and a third card that has no link
PlainCardsPage ==
  [e \in DOMAIN Doc |->
     IF Doc[e].id = "project-2-github" THEN [Doc[e] EXCEPT !.own = "Source"]
     ELSE IF Doc[e].id = "project-2-demo" THEN [Doc[e] EXCEPT !.own = "Docs"]
     ELSE IF Doc[e].id \in {"project-3-github", "project-3-demo"} THEN [Doc[e] EXCEPT !.tag = "span", !.href = ""]
     ELSE Doc[e]]

\* the rendered page with links whose fragments are no ids: a synonym of
\* projects, a spelling that contains a synonym of contact, and the
\* beginning of "projects"
AliasLinksPage ==
  [e \in DOMAIN Doc |->
     IF Doc[e].own = "Projects" /\ Doc[e].tag = "a" THEN [Doc[e] EXCEPT !.href = "#work"]
     ELSE IF Doc[e].own = "Contact" /\ Doc[e].tag = "a" THEN [Doc[e] EXCEPT !.href = "#Contact-me"]
     ELSE IF Doc[e].own = "Explore Projects" THEN [Doc[e] EXCEPT !.href = "#proj"]
     ELSE Doc[e]]

\* a page of its own, whole: the elements with parent 0 are the children
\* of the body.  It has a button below two nested blocks inside main, and
\* after main a block of the body with the same nesting and a button of the
\* body itself
NestedPage ==
  << El("main", "", 0, ""),
     El("div", "", 1, ""),
     El("div", "", 2, ""),
     El("button", "", 3, "Save"),
     El("button", "", 2, "Cancel"),
     Link(1, "#top", "Top"),
     Link(1, "#more", "More"),
     Link(1, "#more", "Even more"),
     Field("input", "", 1, "q", "Search"),
     Field("input", "", 1, "tag", ""),
     Field("input", "", 1, "tag", ""),
     El("section", "notes", 1, ""),
     El("button", "", 12, "Add"),
     El("div", "", 0, ""),
     El("div", "", 14, ""),
     El("div", "", 15, ""),
     El("div", "", 16, ""),
     El("button", "", 17, "Inner"),
     El("button", "", 15, "Outer"),
     El("button", "", 0, "Help") >>

\* the trees that are whole, from the body down
WholeTrees == {NestedPage}

Documents == {Doc, ReorderedPage, UnorderedPage, OtherFormPage, PlainCardsPage, AliasLinksPage} \cup WholeTrees

\* a contact form filled in earlier, its highlights expired, on a page
\* that has been moved to #about
EarlierFill == [id |-> 0, name |-> "fill_input", args |-> Obj(<< <<"values", Obj(<< <<"name", Str("Sam")>>, <<"email", Str("sam@test.com")>>, <<"subject", Str("Hello")>>, <<"message", Str("Hi there")>> >>)>> >>)]

FilledPage == Fresh([executeToolCall(EarlierFill, InitialPage).w EXCEPT !.timers = <<>>, !.highlighted = {}, !.fragment = "#about"])

DirectInit ==
  /\ document \in Documents
  /\ page \in {InitialPage, FilledPage}
  /\ probe = [NoProbe EXCEPT !.before = page]
  /\ messages = <<Greeting>>
  /\ isBusy = FALSE
  /\ flowItems = <<>>
  /\ pc = "idle"
  /\ message = ""
  /\ history = <<>>
  /\ firstReply = NoReply
  /\ toolCalls = <<>>
  /\ toolResults = <<>>
  /\ idx = 0
  /\ request = NoRequest
  /\ turns = 0
  /\ uuids = 0
  /\ posts = 0
  /\ proposed = <<>>
  /\ ended = "none"
  /\ requestIgnored = FALSE

\* one application: what it was and what it gave is recorded, the chat
\* loop is left alone
Applies(made) ==
  /\ probe.n < MaxApplications
  /\ probe' = [made EXCEPT !.n = probe.n + 1, !.before = Fresh(page)]
  /\ UNCHANGED <<document, messages, isBusy, flowItems, pc, message, history, firstReply, toolCalls, toolResults, idx, request, turns, uuids, posts, proposed, ended, requestIgnored>>

\* resolveSectionFromHint(hint)
ResolvesSection(hint) ==
  /\ Applies([NoProbe EXCEPT !.op = "resolveSectionFromHint", !.text = hint, !.out = resolveSectionFromHint(hint)])
  /\ UNCHANGED page

UpperChar(c) == IF \E k \in 1..26 : CharAt(LowerChars, k) = c THEN CharAt(UpperChars, CHOOSE k \in 1..26 : CharAt(LowerChars, k) = c) ELSE c

\* a synonym as it may be written: plain, with a leading '#', and with a
\* capital, white space around it and its inner spaces doubled
Spellings(alias) ==
  LET spaced == IF Includes(alias, " ") THEN SubSeq(alias, 1, IndexOf(alias, " ")) \o "  " \o SubSeq(alias, IndexOf(alias, " ") + 1, Len(alias)) ELSE alias
  IN  {alias, "#" \o alias, "  " \o UpperChar(CharAt(spaced, 1)) \o SubSeq(spaced, 2, Len(spaced)) \o " "}

\* the synonyms of the canonical section k
Synonyms(k) == {SECTION_ALIASES[k][2][a] : a \in 1..Len(SECTION_ALIASES[k][2])}

SectionHints == UNION {Spellings(alias) : alias \in UNION {Synonyms(k) : k \in 1..Len(SECTION_ALIASES)}}

\* findProjectCardByHint(hint); k is the ordinal the hint stands for
FindsProjectCard(hint, k) ==
  /\ Applies([NoProbe EXCEPT !.op = "findProjectCardByHint", !.text = hint, !.k = k, !.out = findProjectCardByHint(hint)])
  /\ UNCHANGED page

\* hints that carry an ordinal, as a word and as an integer literal, and
\* hints that ask for the latest card
CardHints ==
  { <<"second project", 2>>, <<"2nd project", 2>>, <<"project 2", 2>>, <<"the First one", 1>>, <<"Third  project", 3>>, <<"3", 3>>,
    <<"most recent project", 1>>, <<"the Latest", 1>>, <<"newest", 1>> }

\* buildSelector(element), and document.querySelector of what it gave
BuildsSelector(element) ==
  /\ document \in WholeTrees
  /\ probe.n < MaxApplications
  /\ \A selector \in {buildSelector(element)} :
       Applies([NoProbe EXCEPT !.op = "buildSelector", !.el = element, !.sel = selector, !.out = safeQuery(selector).el])
  /\ UNCHANGED page

\* findElement(args); k is 1 when it raised
FindsElement(args) ==
  /\ probe.n < MaxApplications
  /\ \A found \in {findElement(args)} :
       Applies([NoProbe EXCEPT !.op = "findElement", !.call = [id |-> 0, name |-> "", args |-> args], !.out = found.el, !.k = IF found.threw THEN 1 ELSE 0])
  /\ UNCHANGED page

\* hint bundles: each strategy alone, and bundles in which an earlier
\* strategy hits or misses (a blank or unknown section, a selector that is
\* invalid, matches nothing or matches inside the chat panel) beside a later
\* one
HintBundles ==
  { Obj(<< <<"sectionId", Str("contact")>>, <<"selector", Str("#contact-name")>>, <<"text", Str("second project")>> >>),
    Obj(<< <<"section", Str("nowhere")>>, <<"selector", Str("#contact-name")>>, <<"text", Str("second project")>> >>),
    Obj(<< <<"targetSection", Str("My Work")>>, <<"selector", Str("a")>> >>),
    Obj(<< <<"sectionId", Str("  ")>>, <<"selector", Str("#contact-form")>> >>),
    Obj(<< <<"selector", Str("#chat-input")>>, <<"text", Str("second project")>> >>),
    Obj(<< <<"selector", Str("a[[")>>, <<"label", Str("contact")>> >>),
    Obj(<< <<"selector", Str("#missing")>>, <<"target", Str("Tell me")>> >>),
    Obj(<< <<"selector", Str("div >")>>, <<"text", Str("zebra")>> >>),
    Obj(<< <<"selector", Str("h1")>>, <<"text", Num("3")>> >>),
    Obj(<< <<"projectName", Str("Atlas")>> >>),
    Obj(<< <<"text", Str("skills")>> >>),
    Obj(<< <<"text", Str("GitHub")>> >>),
    Obj(<< <<"text", Str("zebra")>> >>),
    Obj(<< <<"sectionId", Num("7")>>, <<"selector", Null>> >>),
    Obj(<<>>) }

\* findByText(text)
FindsByText(text) ==
  /\ Applies([NoProbe EXCEPT !.op = "findByText", !.text = text, !.out = findByText(text)])
  /\ UNCHANGED page

\* text hints: words of the page alone, words of the chat panel alone, words
\* of both, a word of neither, and a blank
TextHints == {"send", "Portfolio Command Center", "example: open", "Take me to contact", "assistant", "contact", "  GitHub ", "tell me", "zebra", "  "}

\* fill_input requests that carry a values mapping: fields of the contact
\* form, with and without a selector, a selector that matches a field, one
\* that matches a section and one that matches nothing, an entry that is
\* no string, and entries for fields the form does not have
BothFields == Obj(<< <<"name", Str("Alex")>>, <<"email", Str("alex@test.com")>> >>)

FillCalls ==
  { Request(201, "fill_input", Obj(<< <<"values", BothFields>> >>)),
    Request(202, "fill_input", Obj(<< <<"selector", Str("#contact-name")>>, <<"values", BothFields>> >>)),
    Request(203, "fill_input", Obj(<< <<"selector", Str("#contact")>>, <<"values", Obj(<< <<"name", Str("Alex")>> >>)>> >>)),
    Request(204, "fill_input", Obj(<< <<"values", Obj(<< <<"name", Str("Alex")>>, <<"phone", Str("555")>>, <<"email", Str("alex@test.com")>> >>)>> >>)),
    Request(205, "fill_input", Obj(<< <<"values", Obj(<< <<"phone", Str("555")>>, <<"name", Str("Alex")>> >>)>> >>)),
    Request(206, "fill_input", Obj(<< <<"values", Obj(<< <<"name", Str("Alex")>>, <<"age", Num("30")>>, <<"message", Str("Hello")>> >>)>> >>)),
    Request(207, "fill_input", Obj(<< <<"selector", Str("#missing")>>, <<"values", Obj(<< <<"subject", Str("Hi")>>, <<"email", Str("alex@test.com")>> >>)>> >>)),
    Request(208, "fill_input", Obj(<< <<"selector", Str("#missing")>>, <<"values", Obj(<< <<"name", Str("Alex")>>, <<"message", Str("Hello")>>, <<"fax", Str("1")>>, <<"subject", Str("Hi")>> >>)>> >>)) }

\* scroll_by requests, each with how the amount is given ("number",
\* "numeric string", or "none" when neither delta nor amount is one) and
\* the amount that stands written in it
ScrollCalls ==
  { <<Request(301, "scroll_by", Obj(<< <<"delta", Num("-400")>> >>)), "number", 0 - 400>>,
    <<Request(302, "scroll_by", Obj(<< <<"delta", Num("400")>> >>)), "number", 400>>,
    <<Request(303, "scroll_by", Obj(<< <<"amount", Num("250")>> >>)), "number", 250>>,
    <<Request(304, "scroll_by", Obj(<< <<"delta", Num("0")>> >>)), "number", 0>>,
    <<Request(305, "scroll_by", Obj(<< <<"delta", Str("-120")>> >>)), "numeric string", 0 - 120>>,
    <<Request(306, "scroll_by", Obj(<< <<"delta", Str(" 75 ")>> >>)), "numeric string", 75>>,
    <<Request(307, "scroll_by", Obj(<< <<"amount", Str("+30")>> >>)), "numeric string", 30>>,
    <<Request(308, "scroll_by", Obj(<< <<"delta", Str("far")>>, <<"amount", Num("-60")>> >>)), "number", 0 - 60>>,
    <<Request(309, "scroll_by", Obj(<< <<"delta", Str("far")>> >>)), "none", 0>>,
    <<Request(310, "scroll_by", Obj(<< <<"delta", Str("12px")>>, <<"amount", Str("   ")>> >>)), "none", 0>>,
    <<Request(311, "scroll_by", Obj(<< <<"delta", Null>>, <<"amount", Obj(<<>>)>> >>)), "none", 0>>,
    <<Request(312, "scroll_by", Obj(<< <<"pixels", Num("400")>> >>)), "none", 0>> }

\* click_element requests aimed at the contact form's controls and at a link
ClickCalls ==
  { Request(401, "click_element", Obj(<< <<"selector", Str("#contact-subject")>> >>)),
    Request(402, "click_element", Obj(<< <<"selector", Str("#contact-message")>> >>)),
    Request(403, "click_element", Obj(<< <<"selector", Str("button")>> >>)),
    Request(404, "click_element", Obj(<< <<"selector", Str("#contact-name")>> >>)),
    Request(405, "click_element", Obj(<< <<"text", Str("second project")>>, <<"target", Str("live demo")>> >>)),
    Request(406, "click_element", Obj(<< <<"selector", Str("a")>> >>)),
    Request(407, "click_element", Obj(<< <<"selector", Str("a[href=\"#contact\"]")>> >>)),
    Request(408, "click_element", Obj(<< <<"selector", Str("a[href=\"#more\"]")>> >>)) }

\* click_element requests for links by their href
LinkClicks ==
  { Request(421, "click_element", Obj(<< <<"selector", Str("a[href=\"#work\"]")>> >>)),
    Request(422, "click_element", Obj(<< <<"selector", Str("a[href=\"#Contact-me\"]")>> >>)),
    Request(423, "click_element", Obj(<< <<"selector", Str("a[href=\"#proj\"]")>> >>)),
    Request(424, "click_element", Obj(<< <<"selector", Str("a[href=\"#projects\"]")>> >>)) }

\* click_element requests that resolve to a project card, by ordinal and by
\* selector, with and without a word for the link
CardClicks ==
  { Request(411, "click_element", Obj(<< <<"text", Str("second project GitHub")>> >>)),
    Request(412, "click_element", Obj(<< <<"text", Str("open the live demo of the first project")>> >>)),
    Request(413, "click_element", Obj(<< <<"label", Str("third project preview")>> >>)),
    Request(414, "click_element", Obj(<< <<"selector", Str("#project-1")>>, <<"target", Str("demo")>> >>)),
    Request(415, "click_element", Obj(<< <<"selector", Str("#project-2")>> >>)),
    Request(416, "click_element", Obj(<< <<"projectName", Str("second project live demo")>> >>)),
    Request(417, "click_element", Obj(<< <<"text", Str("latest project")>> >>)),
    Request(418, "click_element", Obj(<< <<"text", Str("third project")>> >>)) }

\* highlight_element requests: a form, a card, a section, a link, a field,
\* and bundles that resolve to nothing
HighlightCalls ==
  { Request(601, "highlight_element", Obj(<< <<"selector", Str("#contact-form")>> >>)),
    Request(602, "highlight_element", Obj(<< <<"text", Str("second project")>> >>)),
    Request(603, "highlight_element", Obj(<< <<"sectionId", Str("contact")>> >>)),
    Request(604, "highlight_element", Obj(<< <<"selector", Str("a")>> >>)),
    Request(605, "highlight_element", Obj(<< <<"selector", Str("#contact-name")>> >>)),
    Request(606, "highlight_element", Obj(<< <<"text", Str("zebra")>> >>)),
    Request(607, "highlight_element", Obj(<< <<"selector", Str("#chat-input")>>, <<"text", Str("zebra")>> >>)),
    Request(608, "highlight_element", Obj(<<>>)) }

\* navigate_to_section requests: the hint under each of the fields, as an
\* id, with a '#', as a synonym, unknown, and absent beside other hints
NavigateCalls ==
  { Request(501, "navigate_to_section", Obj(<< <<"sectionId", Str("contact")>> >>)),
    Request(502, "navigate_to_section", Obj(<< <<"section", Str("#Projects")>> >>)),
    Request(503, "navigate_to_section", Obj(<< <<"targetSection", Str("contact")>> >>)),
    Request(504, "navigate_to_section", Obj(<< <<"sectionId", Str("nowhere")>>, <<"selector", Str("#contact")>>, <<"text", Str("second project")>> >>)),
    Request(505, "navigate_to_section", Obj(<< <<"section", Str("my work")>> >>)),
    Request(506, "navigate_to_section", Obj(<< <<"selector", Str("#contact")>>, <<"text", Str("skills")>> >>)),
    Request(507, "navigate_to_section", Obj(<< <<"target", Str("skills")>> >>)) }

\* executeToolCall(call) on the page as it is; text and k are what is known
\* of the request beforehand
Executed(call, text, k) ==
  LET Record(done) ==
        /\ Applies([NoProbe EXCEPT !.op = "executeToolCall", !.call = call, !.result = done.result, !.after = done.w, !.text = text, !.k = k])
        /\ page' = done.w
  IN  /\ Len(page.timers) <= MaxTimers
      /\ Record(executeToolCall(call, Fresh(page)))

Executes(call) == Executed(call, "", 0)

DirectNext ==
  \/ \E hint \in SectionHints : ResolvesSection(hint)
  \/ \E pair \in CardHints : FindsProjectCard(pair[1], pair[2])
  \/ \E text \in TextHints : FindsByText(text)
  \/ \E args \in HintBundles : FindsElement(args)
  \/ \E element \in Elements : BuildsSelector(element)
  \/ \E call \in FillCalls \cup ClickCalls \cup LinkClicks \cup CardClicks \cup NavigateCalls \cup HighlightCalls : Executes(call)
  \/ \E scroll \in ScrollCalls : Executed(scroll[1], scroll[2], scroll[3])
  \/ TimerFires

DirectSpec == DirectInit /\ [][DirectNext]_vars

\* C13: a synonym of a canonical section that is in the tree, in any of its
\* spellings, resolves to that section.
C13_synonym_resolves_to_canonical_section ==
  probe.op = "resolveSectionFromHint" =>
    \A k \in 1..Len(SECTION_ALIASES) :
      (/\ \E alias \in Synonyms(k) : probe.text \in Spellings(alias)
       /\ \E e \in Elements : document[e].tag = "section" /\ document[e].id = SECTION_ALIASES[k][1])
      => /\ probe.out # NoElement
         /\ document[probe.out].tag = "section"
         /\ document[probe.out].id = SECTION_ALIASES[k][1]

\* C14: a hint that stands for the ordinal k (a word, an integer literal,
\* or "most recent", "latest", "newest" for 1) resolves to a card whose
\* data-project-order is k when there is one, and to the k-th card in
\* document order when there is none.
C14_card_by_logical_order ==
  probe.op = "findProjectCardByHint" =>
    LET byOrder == {c \in Cards : document[c].order = NatToStr(probe.k)}
    IN  IF byOrder # {} THEN probe.out \in byOrder ELSE probe.out = Nth(Cards, probe.k)

\* the string entries of the values mapping of the fill_input request applied
Updates == IF isObject(probe.call.args) /\ isObject(Get(probe.call.args, "values")) THEN StringEntries(Get(probe.call.args, "values")) ELSE <<>>

FilledByValues == probe.op = "executeToolCall" /\ probe.call.name = "fill_input" /\ Updates # <<>>

\* C15: when fill_input with a values mapping reports success, for every
\* string entry the field matching the entry's field name holds the entry's
\* value and has been notified, and the result reports one updated field per
\* entry, with or without a selector.
C15_values_success_fills_every_field ==
  (FilledByValues /\ probe.result.success) =>
    /\ \A i \in 1..Len(Updates) : \A field \in {findInputByFieldName(Updates[i][1])} :
          /\ field # NoElement
          /\ page.value[field] = Updates[i][2].s
          /\ \E j \in 1..Len(page.notified) : page.notified[j] = field
    /\ probe.result.output = "Filled " \o NatToStr(Len(Updates)) \o " field(s): " \o JoinOutputs([i \in 1..Len(Updates) |-> Updates[i][1] \o " updated"]) \o "."

\* the element entry i of the mapping is written to: the selector's, when
\* there is a selector and it matches one, else the field of that name
EntryTarget(i) ==
  LET selector == readString(probe.call.args, <<"selector">>)
      bySelector == IF selector # "" THEN safeQuery(selector).el ELSE NoElement
  IN  IF bySelector # NoElement THEN bySelector ELSE findInputByFieldName(Updates[i][1])

Unresolved == {i \in 1..Len(Updates) : EntryTarget(i) = NoElement}

FirstUnresolved == CHOOSE k \in Unresolved : \A i \in Unresolved : k <= i

\* C16: when the k-th entry of a values mapping names a field that cannot be
\* resolved, the result is a failure whose output names that field, every
\* field holds what the last of the entries 1..k-1 aimed at it wrote, and
\* every other field, those of the entries after k among them, holds what
\* it held before.
C16_partial_fill_is_kept ==
  (FilledByValues /\ Unresolved # {}) =>
    /\ ~probe.result.success
    /\ probe.result.output = "Could not find input field for \"" \o Updates[FirstUnresolved][1] \o "\"."
    /\ \A field \in FieldElements :
          LET writers == {j \in 1..(FirstUnresolved - 1) : EntryTarget(j) = field}
          IN  page.value[field] = IF writers = {} THEN probe.before.value[field]
                                  ELSE Updates[CHOOSE j \in writers : \A i \in writers : i <= j][2].s

\* the third entry of four fails: the first two fields hold the new values
\* and the fourth keeps the one it had
C16_witness ==
  /\ FilledByValues
  /\ probe.call.id = 208
  /\ getElementById("contact-name") # NoElement
  /\ FirstUnresolved = 3
  /\ ~probe.result.success
  /\ probe.before.value[getElementById("contact-name")] = "Sam"
  /\ page.value[getElementById("contact-name")] = "Alex"
  /\ page.value[getElementById("contact-message")] = "Hello"
  /\ page.value[getElementById("contact-subject")] = "Hello"

\* C17: scroll_by with delta or amount given as a number or a numeric
\* string scrolls once, by that signed amount, and reports success, "up"
\* for a negative and "down" for a positive amount; when neither is a number
\* it fails and does not scroll.
C17_scroll_by_signed_amount ==
  (probe.op = "executeToolCall" /\ probe.call.name = "scroll_by" /\ probe.text # "") =>
    IF probe.text = "none"
    THEN /\ ~probe.result.success
         /\ page.scrolledBy = <<>>
    ELSE /\ probe.result.success
         /\ page.scrolledBy = <<probe.k>>
         /\ probe.k < 0 => probe.result.output = "Scrolled up by " \o NatToStr(0 - probe.k) \o " pixels."
         /\ probe.k > 0 => probe.result.output = "Scrolled down by " \o NatToStr(probe.k) \o " pixels."

\* delta = -400 has scrolled up by 400
C17_witness ==
  /\ probe.op = "executeToolCall"
  /\ probe.call = Request(301, "scroll_by", Obj(<< <<"delta", Num("-400")>> >>))
  /\ probe.result.success
  /\ probe.result.output = "Scrolled up by 400 pixels."
  /\ page.scrolledBy = <<0 - 400>>

\* C18: click_element on a target that is a disabled button, input, select
\* or textarea returns a failed result and dispatches no click on it.
C18_disabled_control_is_not_clicked ==
  (/\ probe.op = "executeToolCall"
   /\ probe.call.name = "click_element"
   /\ page.target # NoElement
   /\ document[page.target].tag \in {"button", "input", "select", "textarea"}
   /\ IsDisabled(page.target)) =>
    /\ ~probe.result.success
    /\ \A j \in 1..Len(page.clicked) : page.clicked[j] # page.target

\* C19: for every text hint and every tree, findByText returns null or an
\* element outside the chat panel, also when an element of the panel would
\* have the lowest score.
C19_findByText_never_returns_chat_ui ==
  probe.op = "findByText" => (probe.out = NoElement \/ ~isInsideChatUi(probe.out))

\* "send": the panel's Send button would score lower than the element found
C19_witness ==
  /\ probe.op = "findByText"
  /\ probe.text = "send"
  /\ probe.out # NoElement
  /\ ~isInsideChatUi(probe.out)
  /\ \E e \in Elements :
        /\ isInsideChatUi(e)
        /\ IsTextCandidate(e)
        /\ Includes(Composite[e], "send")
        /\ TextScore(e, "send") < TextScore(probe.out, "send")

\* the ancestors an element has below the body
RECURSIVE Depth(_)
Depth(e) == IF document[e].parent = NoElement THEN 0 ELSE 1 + Depth(document[e].parent)

\* C20: for an element with no id, no name that it alone bears among the
\* elements of its tag, for an anchor no href that it alone bears, and at
\* most 2 ancestors below the body, buildSelector gives a positional path
\* that document.querySelector resolves to that element.
C20_positional_selector_round_trips ==
  (/\ probe.op = "buildSelector"
   /\ document[probe.el].id = ""
   /\ ~(document[probe.el].name # "" /\ \A o \in Elements : (document[o].tag = document[probe.el].tag /\ document[o].name = document[probe.el].name) => o = probe.el)
   /\ ~(document[probe.el].tag = "a" /\ document[probe.el].href # "" /\ \A o \in Elements : (document[o].tag = "a" /\ document[o].href = document[probe.el].href) => o = probe.el)
   /\ Depth(probe.el) <= 2) =>
    /\ Includes(probe.sel, ":nth-of-type(")
    /\ probe.out = probe.el

\* what each strategy gives for the bundle findElement was applied to
BySectionHint == LET hint == readString(probe.call.args, <<"sectionId", "section", "targetSection">>) IN IF hint = "" THEN NoElement ELSE resolveSectionFromHint(hint)

BySelectorHint ==
  LET selector == readString(probe.call.args, <<"selector">>)
      matched == IF selector # "" /\ SelectorIsValid(selector) THEN querySelector(selector) ELSE NoElement
  IN  IF matched # NoElement /\ ~isInsideChatUi(matched) THEN matched ELSE NoElement

TextHint == readString(probe.call.args, <<"text", "label", "target", "projectName">>)

\* C21: findElement gives what the first strategy that hits gives: the
\* section hint, else the selector when it matches outside the chat panel,
\* else the text hint as a card, then as a section, then by ranked search;
\* a strategy that misses raises nothing, and the result is null only when
\* every strategy misses.
C21_first_strategy_wins ==
  probe.op = "findElement" =>
    /\ probe.k = 0
    /\ probe.out = IF BySectionHint # NoElement THEN BySectionHint
                   ELSE IF BySelectorHint # NoElement THEN BySelectorHint
                   ELSE IF TextHint = "" THEN NoElement
                   ELSE IF findProjectCardByHint(TextHint) # NoElement THEN findProjectCardByHint(TextHint)
                   ELSE IF resolveSectionFromHint(TextHint) # NoElement THEN resolveSectionFromHint(TextHint)
                   ELSE findByText(TextHint)

\* the section hint wins over a selector and a text hint that both hit
C21_witness ==
  /\ probe.op = "findElement"
  /\ probe.out # NoElement
  /\ probe.out = BySectionHint
  /\ BySelectorHint \notin {NoElement, probe.out}
  /\ findProjectCardByHint(TextHint) \notin {NoElement, probe.out}

\* the section hint of the request applied, read from the fields of the
\* section strategy
NavigateHint == readString(probe.call.args, <<"sectionId", "section", "targetSection">>)

\* C22: navigate_to_section with a hint under sectionId, section or
\* targetSection that resolves reports success, scrolls the section to its
\* top, sets the fragment to it and highlights it; with a hint that resolves
\* to nothing it reports the section not found, whatever selector or text
\* comes with it, and changes neither the fragment nor a highlight.
C22_navigate_by_section_hint ==
  (probe.op = "executeToolCall" /\ probe.call.name = "navigate_to_section" /\ NavigateHint # "") =>
    \A section \in {resolveSectionFromHint(NavigateHint)} :
      IF section # NoElement
      THEN /\ probe.result.success
           /\ probe.after.fragment = "#" \o document[section].id
           /\ probe.after.scrolledInto = << <<section, "start">> >>
           /\ probe.after.highlighted = probe.before.highlighted \cup {section}
           /\ probe.after.clicked = <<>>
      ELSE /\ ~probe.result.success
           /\ probe.result.output = "Section \"" \o NavigateHint \o "\" was not found."
           /\ probe.after.fragment = probe.before.fragment
           /\ probe.after.highlighted = probe.before.highlighted

\* the anchor with a fragment href that the click_element request applied
\* resolved to, if it did
ClickedFragmentLink ==
  /\ probe.op = "executeToolCall"
  /\ probe.call.name = "click_element"
  /\ probe.after.target # NoElement
  /\ document[probe.after.target].tag = "a"
  /\ StartsWith(document[probe.after.target].href, "#")

\* C23: click_element on an anchor whose href is a fragment: when a section
\* bears the fragment's id, the section is scrolled to its top, the location
\* fragment is the href, the result is a success and the anchor is not
\* clicked; when the fragment resolves to no section the anchor is clicked.
C23_fragment_link_moves_to_section ==
  ClickedFragmentLink =>
    \A anchor \in {probe.after.target} :
      /\ \A section \in Elements :
           (document[section].tag = "section" /\ "#" \o document[section].id = document[anchor].href) =>
             /\ probe.result.success
             /\ probe.after.scrolledInto = << <<anchor, "center">>, <<section, "start">> >>
             /\ probe.after.fragment = document[anchor].href
             /\ probe.after.clicked = <<>>
      /\ resolveSectionFromHint(document[anchor].href) = NoElement =>
             /\ probe.result.success
             /\ probe.after.clicked = <<anchor>>
             /\ probe.after.scrolledInto = << <<anchor, "center">> >>

\* the link to #contact has moved the page to the contact section
C23_witness ==
  /\ ClickedFragmentLink
  /\ document[probe.after.target].href = "#contact"
  /\ probe.result.output = "Moved to #contact."
  /\ probe.after.fragment = "#contact"
  /\ probe.after.clicked = <<>>

\* the card the click_element request applied resolved to, or null
ClickedCard ==
  IF probe.op = "executeToolCall" /\ probe.call.name = "click_element" /\ isObject(probe.call.args)
  THEN (LET found == findElement(probe.call.args).el IN IF found # NoElement /\ document[found].card THEN found ELSE NoElement)
  ELSE NoElement

\* C24: click_element that resolves to a card with links clicks one of its
\* links and not the card: for a hint with "github" the link whose text
\* mentions github, for a hint with "live", "demo" or "preview" the link
\* whose text mentions live, the first link for any other hint, for none,
\* and when no link mentions the word; a card without links is clicked
\* itself.
C24_card_click_goes_to_one_link ==
  ClickedCard # NoElement =>
    LET hint == normalize(readString(probe.call.args, <<"text", "label", "target", "projectName">>))
        links == {e \in Descendants[ClickedCard] : document[e].tag = "a"}
        word == IF Includes(hint, "github") THEN "github"
                ELSE IF Includes(hint, "live") \/ Includes(hint, "demo") \/ Includes(hint, "preview") THEN "live"
                ELSE ""
        named == {l \in links : word # "" /\ Includes(normalize(TextContent[l]), word)}
    IN  /\ probe.result.success
        /\ probe.after.clicked = << IF links = {} THEN ClickedCard ELSE IF named # {} THEN First(named) ELSE First(links) >>

\* C25: highlight_element scrolls its target to the centre and highlights
\* it, and changes nothing else: the fragment, the values of the fields, the
\* focus and the elements clicked are as before; when no target resolves
\* the result is a failure and the page is as before.
C25_highlight_changes_nothing_else ==
  (probe.op = "executeToolCall" /\ probe.call.name = "highlight_element") =>
    IF probe.result.success
    THEN /\ probe.after.target # NoElement
         /\ probe.after = [probe.before EXCEPT !.target = probe.after.target,
                                               !.scrolledInto = << <<probe.after.target, "center">> >>,
                                               !.highlighted = @ \cup {probe.after.target},
                                               !.timers = Append(@, probe.after.target)]
    ELSE probe.after = probe.before

\* a link has been highlighted on a filled form: it is not clicked, the
\* location and the fields are as they were
C25_witness ==
  /\ probe.op = "executeToolCall"
  /\ probe.call.name = "highlight_element"
  /\ probe.result.success
  /\ document[probe.after.target].tag = "a"
  /\ probe.after.target \in probe.after.highlighted
  /\ probe.after.clicked = <<>>
  /\ probe.before.fragment = "#about"
  /\ probe.after.fragment = "#about"
  /\ \E field \in FieldElements : probe.before.value[field] # ""
  /\ probe.after.value = probe.before.value

\* the elements that have a removal timer pending
Pending == {page.timers[i] : i \in 1..Len(page.timers)}

\* C26: every highlight marker is removed in the end.  Every element that
\* carries the marker has a removal timer pending, so that none carries it
\* once all have fired; no action takes a pending timer away or puts one in
\* front of it, whatever is highlighted later, the same element again
\* included; and every timer fires.
C26_highlights_are_removed ==
  /\ [](page.highlighted \subseteq Pending)
  /\ [][\/ page.timers # <<>> /\ page'.timers = Tail(page.timers) /\ page'.highlighted = page.highlighted \ {Head(page.timers)}
        \/ Len(page'.timers) >= Len(page.timers) /\ SubSeq(page'.timers, 1, Len(page.timers)) = page.timers /\ page.highlighted \subseteq page'.highlighted]_vars
  /\ (page.timers # <<>>) ~> (page.timers = <<>>)
  /\ (page.highlighted # {}) ~> (page.highlighted = {})

\* an element has been highlighted again while its first timer is pending
C26_witness ==
  /\ Len(page.timers) >= 2
  /\ page.timers[1] = page.timers[2]
  /\ page.timers[1] \in page.highlighted

\* C27: an element highlighted again while an earlier removal timer on it
\* is pending keeps its marker until the timer of the latest highlight
\* fires: as long as a timer is pending on an element, the element carries
\* the marker.
C27_marker_lasts_until_latest_timer == Pending \subseteq page.highlighted

\* C28: when navigate_to_section, or click_element without handing the
\* link to the browser, has changed the location fragment, the fragment is
\* '#' followed by the id of the section the action scrolled to its top and
\* highlighted.
C28_fragment_names_the_section_shown ==
  (/\ probe.op = "executeToolCall"
   /\ probe.call.name \in {"navigate_to_section", "click_element"}
   /\ probe.after.clicked = <<>>
   /\ probe.after.fragment # probe.before.fragment) =>
    \E section \in Elements :
      /\ probe.after.scrolledInto # <<>>
      /\ probe.after.scrolledInto[Len(probe.after.scrolledInto)] = <<section, "start">>
      /\ section \in probe.after.highlighted
      /\ probe.after.fragment = "#" \o document[section].id

\* C29: a scroll_by, navigate_to_section, click_element or highlight_element
\* that returns a failed result has left the page as it was: no marker, no
\* timer, nothing scrolled, nothing clicked, the same fragment.
C29_failed_action_has_no_effect ==
  (/\ probe.op = "executeToolCall"
   /\ probe.call.name \in {"scroll_by", "navigate_to_section", "click_element", "highlight_element"}
   /\ ~probe.result.success) =>
    /\ probe.after.highlighted = probe.before.highlighted
    /\ probe.after.timers = probe.before.timers
    /\ probe.after.scrolledInto = <<>>
    /\ probe.after.scrolledBy = <<>>
    /\ probe.after.clicked = <<>>
    /\ probe.after.fragment = probe.before.fragment

====
